---- MODULE Spec2Model ----
(***************************************************************************)
(* Model of humane-searcher's SearcherInternal (src/unnamed/part_000):     *)
(* the query compiler (buildTypeQuery, filterQueries, facetQueries,        *)
(* searchQuery), the response processor (_processResponse,                 *)
(* processMultipleSearchResponse, processMultipleSearchResponseAsArray),   *)
(* the classification step of carDekhoIntentBasedSearch and the            *)
(* relevancy-deflection step of suggestedQueries.                          *)
(*                                                                         *)
(* A behaviour is one call: Init draws the operation (api) and its inputs  *)
(* from bounded sets, the operation's action computes its result the way   *)
(* the code does and stores it in result.  SpecOrchestrator follows one    *)
(* request to Searcher through its promise chains: the compiles, the       *)
(* gateway calls and replies, and the events, are appended to trace.       *)
(* SpecRegistry follows the type config a searcher holds over several      *)
(* requests, and view (in Spec) runs page by page: "scrolling" between     *)
(* its call of the gateway and its return.                                 *)
(***************************************************************************)
EXTENDS Integers, Sequences, FiniteSets, TLC

VARIABLES
    pc,                \* "call" before the operation has run, "done" after; "new" before
                       \* construction, "pending" while a request's promise is unsettled,
                       \* "thrown" / "rejected" when it has failed, "scrolling" during
                       \* the scroll of view, "serving" in SpecRegistry
    api,               \* the operation this call is for
    input,             \* the validated request (page, count, text, filter)
    searchTypeConfig,  \* the type config(s) the operation works with
    response,          \* the backend's raw response(s)
    local,             \* the local variables of the operation, once it has run
    result,            \* what the operation returns
    trace              \* the compiles, gateway calls, replies and events so far

vars == <<pc, api, input, searchTypeConfig, response, local, result, trace>>

\* stands for a variable the operation at hand does not read
None == [t |-> "none"]

-----------------------------------------------------------------------------
(* JavaScript values of the request and of the type config *)

Undefined == [t |-> "undefined"]
Null == [t |-> "null"]
Str(s) == [t |-> "string", v |-> s]
Arr(seq) == [t |-> "array", v |-> seq]
Bool(b) == [t |-> "boolean", v |-> b]
Num(n) == [t |-> "number", v |-> n]
NaN == [t |-> "NaN"]
\* a range object {from, to}
RangeObj(from, to) == [t |-> "range", from |-> from, to |-> to]
\* a filter wrapper {value | values | range | ranges, type}; type "" is undefined
Wrapper(type, value, values, range, ranges) ==
    [t |-> "wrapper", type |-> type, value |-> value, values |-> values,
     range |-> range, ranges |-> ranges]

\* the truthiness of a value in an if
Truthy(x) ==
    CASE x.t \in {"undefined", "null", "NaN"} -> FALSE
      [] x.t = "string" -> x.v # ""
      [] x.t = "boolean" -> x.v
      [] x.t = "number" -> x.v # 0
      [] OTHER -> TRUE

\* _.isObject
isObject(x) == x.t \in {"array", "range", "wrapper"}

\* x === 'text'
IsStr(x, text) == x.t = "string" /\ x.v = text

\* x.type of a value; "" is undefined
TypeOf(x) == IF x.t = "wrapper" THEN x.type ELSE ""

\* x.value, x.values, x.range, x.ranges of an object
Prop(x, name) ==
    IF x.t # "wrapper" THEN Undefined
    ELSE CASE name = "value" -> x.value
           [] name = "values" -> x.values
           [] name = "range" -> x.range
           [] name = "ranges" -> x.ranges

\* oneValue.from and oneValue.to; -1 is undefined
FromOf(x) == IF x.t = "range" THEN x.from ELSE -1
ToOf(x) == IF x.t = "range" THEN x.to ELSE -1

-----------------------------------------------------------------------------
(* Bounds *)

MaxHits == 4        \* hits of one backend response (_processResponse)
MaxTotal == 5       \* hits.total of one backend response
MaxPage == 2        \* input.page
MaxGroupHits == 2   \* hits of one response of a multi-search batch
MaxGroupTotal == 3  \* hits.total of one response of a multi-search batch
MaxProbeHits == 3   \* hits.total of one probe of the intent cascade
MaxSections == 3    \* sections of one composeSections call

\* _score values of a single response; 36/90 is exactly 0.40
Scores == {0, 28, 30, 36, 90, 100}
\* _score values of the responses of a batch; with a _weight of 2 they give
\* the relevancy scores 1.5, 2 and 5, each exactly one half of another score
GroupScores == {3, 4, 10}
\* _weight values of a hit; 0 stands for every falsy _weight (absent, 0)
Weights == {0, 2}
Min(a, b) == IF a < b THEN a ELSE b

\* all sequences over S of length 0..n
SeqUpTo(S, n) == UNION {[1..k -> S] : k \in 0..n}

-----------------------------------------------------------------------------
(* Response processor *)

\* the source document of every hit: one plain field and one bookkeeping
\* field wrapped in double underscores
HitSource == {"name", "__meta__"}

\* _deepOmit on a flat source: drops the keys that start and end with "__"
_deepOmit(source) == source \ {"__meta__"}

\* _processSource: the identity fields of the hit over the cleaned source
_processSource(hit) ==
    [_id |-> hit._id, _score |-> hit._score, _weight |-> hit._weight,
     _source |-> _deepOmit(hit._source)]

\* (hitOut._score * 1.0) / previousScore > 0.40 over non-negative integers;
\* x / 0 is Infinity for x > 0 and NaN for x = 0, and NaN > 0.40 is false
ScoreRatioAboveCliff(score, previousScore) ==
    IF previousScore = 0 THEN score > 0 ELSE 5 * score > 2 * previousScore

\* the loop over response.hits.hits: acc = [results, previousScore];
\* previousScore = -1 stands for null
\* variant: previousScore is also assigned when the hit is dropped
RECURSIVE CliffLoopResetOnDrop(_, _, _)
CliffLoopResetOnDrop(hits, i, acc) ==
    IF i > Len(hits) THEN acc.results
    ELSE LET hitOut == _processSource(hits[i])
         IN IF acc.previousScore = -1 \/ ScoreRatioAboveCliff(hitOut._score, acc.previousScore)
            THEN CliffLoopResetOnDrop(hits, i + 1,
                    [results |-> Append(acc.results, hitOut), previousScore |-> hitOut._score])
            ELSE CliffLoopResetOnDrop(hits, i + 1,
                    [results |-> acc.results, previousScore |-> hitOut._score])

RECURSIVE CliffLoop(_, _, _)
CliffLoop(hits, i, acc) ==
    IF i > Len(hits) THEN acc.results
    ELSE LET hitOut == _processSource(hits[i])
         IN IF acc.previousScore = -1 \/ ScoreRatioAboveCliff(hitOut._score, acc.previousScore)
            THEN CliffLoop(hits, i + 1,
                    [results |-> Append(acc.results, hitOut), previousScore |-> hitOut._score])
            ELSE CliffLoop(hits, i + 1, acc)

\* the kept hits of one response (the relevancy cliff filter)
KeptHits(resp) ==
    CliffLoop(resp.hits.hits, 1, [results |-> << >>, previousScore |-> -1])

\* a page descriptor; undefinedPage stands for a prevPage / nextPage left undefined
undefinedPage == [present |-> FALSE, page |-> -1]
PageLink(p) == [present |-> TRUE, page |-> p]

\* if (input.page > 0) prevPage = {page: input.page - 1, ...}
prevPageOf(in) ==
    IF in.page > 0 THEN PageLink(in.page - 1) ELSE undefinedPage

\* variant: the offset of the page is left out
nextPageIgnoringOffset(in, count, totalResults) ==
    IF count < totalResults THEN PageLink(in.page + 1) ELSE undefinedPage

\* if ((input.count * input.page) + count < totalResults) nextPage = {page: input.page + 1, ...}
nextPageOf(in, count, totalResults) ==
    IF (in.count * in.page) + count < totalResults
    THEN PageLink(in.page + 1) ELSE undefinedPage

\* _processResponse; summaries and facets are not modelled
_processResponse(resp, type, in) ==
    LET results == KeptHits(resp)
        count == Len(results)
        totalResults == resp.hits.total
    IN [type |-> type, resultType |-> type, results |-> results,
        queryTimeTaken |-> resp.took, totalResults |-> totalResults,
        count |-> count, prevPage |-> prevPageOf(in),
        nextPage |-> nextPageOf(in, count, totalResults)]

Max(a, b) == IF a > b THEN a ELSE b

\* the _.forEach over responses.responses of processMultipleSearchResponse;
\* merged.queryTimeTaken = -1 stands for undefined (|| 0 makes it 0)
RECURSIVE MergeLoop(_, _, _, _, _)
MergeLoop(responses, types, in, index, merged) ==
    IF index > Len(responses) THEN merged
    ELSE LET hasType == Len(types) >= index
             res == _processResponse(responses[index], IF hasType THEN types[index] ELSE "", in)
         IN IF ~hasType \/ Len(res.results) = 0
            THEN MergeLoop(responses, types, in, index + 1, merged)
            ELSE MergeLoop(responses, types, in, index + 1,
                    [merged EXCEPT
                        !.queryTimeTaken = Max(Max(merged.queryTimeTaken, 0), res.queryTimeTaken),
                        !.results = Append(merged.results, res),
                        !.totalResults = merged.totalResults + res.totalResults,
                        !.count = merged.count + Len(res.results)])

\* processMultipleSearchResponse; results, an object keyed by type, is the
\* sequence of its values in insertion order
processMultipleSearchResponse(responses, types, in) ==
    LET merged == MergeLoop(responses, types, in, 1,
                    [multi |-> TRUE, totalResults |-> 0, results |-> << >>,
                     page |-> in.page, count |-> 0, queryTimeTaken |-> -1])
    IN [multi |-> TRUE, totalResults |-> merged.totalResults,
        results |-> merged.results, page |-> merged.page, count |-> merged.count,
        queryTimeTaken |-> merged.queryTimeTaken,
        prevPage |-> prevPageOf(in),
        nextPage |-> nextPageOf(in, merged.count, merged.totalResults)]

-----------------------------------------------------------------------------
(* Relevancy-deflection ranker (suggestedQueries) *)

\* a relevancy score _score / (_weight || 1.0), kept as the fraction n / d
Rel(n, d) == [n |-> n, d |-> d]

\* result._relevancyScore = result._score / (result._weight || 1.0)
_relevancyScore(hit) == Rel(hit._score, IF hit._weight = 0 THEN 1 ELSE hit._weight)

RelLess(a, b) == a.n * b.d < b.n * a.d
RelGeq(a, b) == a.n * b.d >= b.n * a.d

\* variant: score <= 0.5 * previousScore
UnderOrAtHalfOf(score, previousScore) == 2 * score.n * previousScore.d <= previousScore.n * score.d

\* score < 0.5 * previousScore
UnderHalfOf(score, previousScore) == 2 * score.n * previousScore.d < previousScore.n * score.d

\* the hits of every result group, in group order (the two nested _.forEach)
RECURSIVE GroupHits(_)
GroupHits(groups) ==
    IF groups = << >> THEN << >>
    ELSE Head(groups).results \o GroupHits(Tail(groups))

\* one score put into a list sorted in descending order
RECURSIVE InsertScoreDesc(_, _)
InsertScoreDesc(score, sorted) ==
    IF sorted = << >> THEN <<score>>
    ELSE IF RelLess(Head(sorted), score) THEN <<score>> \o sorted
    ELSE <<Head(sorted)>> \o InsertScoreDesc(score, Tail(sorted))

\* relevancyScores.sort((scoreA, scoreB) => scoreB - scoreA)
RECURSIVE SortScoresDesc(_)
SortScoresDesc(scores) ==
    IF scores = << >> THEN << >>
    ELSE InsertScoreDesc(scores[Len(scores)], SortScoresDesc(SubSeq(scores, 1, Len(scores) - 1)))

relevancyScores(hits) == SortScoresDesc([i \in 1..Len(hits) |-> _relevancyScore(hits[i])])

\* the scan for the deflection point: previousScore = 0 and deflectionScore = 0
\* at the start, return false (stop) at the first trigger
RECURSIVE DeflectionLoop(_, _, _)
DeflectionLoop(scores, i, previousScore) ==
    IF i > Len(scores) THEN Rel(0, 1)
    ELSE IF previousScore.n # 0 /\ UnderHalfOf(scores[i], previousScore)
         THEN previousScore
         ELSE DeflectionLoop(scores, i + 1, scores[i])

deflectionScoreOf(hits) == DeflectionLoop(relevancyScores(hits), 1, Rel(0, 1))

\* one hit put into a list sorted by _score in descending order, after its equals
RECURSIVE InsertHitDesc(_, _)
InsertHitDesc(hit, sorted) ==
    IF sorted = << >> THEN <<hit>>
    ELSE IF Head(sorted)._score < hit._score THEN <<hit>> \o sorted
    ELSE <<Head(sorted)>> \o InsertHitDesc(hit, Tail(sorted))

\* results.sort((resultA, resultB) => resultB._score - resultA._score)
RECURSIVE SortHitsDesc(_)
SortHitsDesc(hits) ==
    IF hits = << >> THEN << >>
    ELSE InsertHitDesc(hits[Len(hits)], SortHitsDesc(SubSeq(hits, 1, Len(hits) - 1)))

\* variant: result._relevancyScore > deflectionScore
keepAboveDeflection(hits, deflectionScore) ==
    SelectSeq(hits, LAMBDA hit : RelLess(deflectionScore, _relevancyScore(hit)))

\* if (result._relevancyScore >= deflectionScore) results.push(result)
keepFromDeflection(hits, deflectionScore) ==
    SelectSeq(hits, LAMBDA hit : RelGeq(_relevancyScore(hit), deflectionScore))

\* the .then of suggestedQueries on a multi response: response.results becomes
\* the flat list of the kept hits, every other field stays
deflect(merged) ==
    LET hits == GroupHits(merged.results)
        deflectionScore == deflectionScoreOf(hits)
    IN [merged EXCEPT
          !.results = SortHitsDesc(keepFromDeflection(hits, deflectionScore))]

-----------------------------------------------------------------------------
(* Intent cascade: classification *)

\* the searchType chosen from the three probe totals; "fallback" stands for
\* searchType left null (searchWithoutIntent)
\* variant: two hits still count as single
searchTypeSingleUpToTwo(brandHits, modelHits, variantHits) ==
    IF brandHits # 0 THEN (IF brandHits <= 2 THEN "brand-single" ELSE "brand-multi")
    ELSE IF modelHits # 0 THEN (IF modelHits <= 2 THEN "model-single" ELSE "model-multi")
    ELSE IF variantHits # 0 THEN (IF variantHits <= 2 THEN "variant-single" ELSE "variant-multi")
    ELSE "fallback"

\* variant: the probes are inspected most specific first
searchTypeVariantFirst(brandHits, modelHits, variantHits) ==
    IF variantHits # 0 THEN (IF variantHits = 1 THEN "variant-single" ELSE "variant-multi")
    ELSE IF modelHits # 0 THEN (IF modelHits = 1 THEN "model-single" ELSE "model-multi")
    ELSE IF brandHits # 0 THEN (IF brandHits = 1 THEN "brand-single" ELSE "brand-multi")
    ELSE "fallback"

searchTypeOf(brandHits, modelHits, variantHits) ==
    IF brandHits # 0 THEN (IF brandHits = 1 THEN "brand-single" ELSE "brand-multi")
    ELSE IF modelHits # 0 THEN (IF modelHits = 1 THEN "model-single" ELSE "model-multi")
    ELSE IF variantHits # 0 THEN (IF variantHits = 1 THEN "variant-single" ELSE "variant-multi")
    ELSE "fallback"

\* Math.max of two values: NaN when one of them is no number
mathMax(a, b) ==
    IF a.t = "number" /\ b.t = "number" THEN Num(Max(a.v, b.v)) ELSE NaN

\* the _.forEach over responses.responses of processMultipleSearchResponseAsArray;
\* the result of a response is given no queryTimeTaken
RECURSIVE MergeAsArrayLoop(_, _, _)
MergeAsArrayLoop(responses, index, merged) ==
    IF index > Len(responses) THEN merged
    ELSE LET results == KeptHits(responses[index])
             res == [results |-> results, totalResults |-> responses[index].hits.total,
                     count |-> Len(results), queryTimeTaken |-> Undefined]
         IN MergeAsArrayLoop(responses, index + 1,
                [merged EXCEPT
                    !.queryTimeTaken =
                        mathMax(IF Truthy(merged.queryTimeTaken)
                                THEN merged.queryTimeTaken ELSE Num(0),
                                res.queryTimeTaken),
                    !.results = Append(merged.results, res),
                    !.totalResults = merged.totalResults + res.totalResults,
                    !.count = merged.count + res.count])

\* processMultipleSearchResponseAsArray
processMultipleSearchResponseAsArray(responses, in) ==
    LET merged == MergeAsArrayLoop(responses, 1,
                    [multi |-> TRUE, totalResults |-> 0, results |-> << >>,
                     page |-> in.page, count |-> 0, queryTimeTaken |-> Undefined])
    IN [multi |-> TRUE, totalResults |-> merged.totalResults,
        results |-> merged.results, page |-> merged.page, count |-> merged.count,
        queryTimeTaken |-> merged.queryTimeTaken,
        prevPage |-> prevPageOf(in),
        nextPage |-> nextPageOf(in, merged.count, merged.totalResults)]

\* _.get(response, 'results[i].totalResults', 0)
probeHits(multiResponse, i) ==
    IF Len(multiResponse.results) >= i THEN multiResponse.results[i].totalResults ELSE 0

-----------------------------------------------------------------------------
(* Section composition: buildSection and composeSections *)

\* an error that is no ValidationError and no InternalServiceError, such as the
\* TypeError of a property read on undefined; _errorCode "" is undefined
TypeError == [t |-> "error", _errorCode |-> "", code |-> "TypeError"]

\* result => result._type === 'new_car_model' ? 0 : 1
newCarTypeRank(hit) == IF hit._type = "new_car_model" THEN 0 ELSE 1

\* the order of sortNewCarResults: _score descending, then models first
newCarBefore(a, b) ==
    \/ a._score > b._score
    \/ a._score = b._score /\ newCarTypeRank(a) < newCarTypeRank(b)

\* one hit put into a sorted list, after the hits it does not precede
RECURSIVE insertNewCar(_, _)
insertNewCar(hit, sorted) ==
    IF sorted = << >> THEN <<hit>>
    ELSE IF newCarBefore(hit, Head(sorted)) THEN <<hit>> \o sorted
    ELSE <<Head(sorted)>> \o insertNewCar(hit, Tail(sorted))

\* sortNewCarResults: _.sortBy, a stable sort
RECURSIVE sortNewCarResults(_)
sortNewCarResults(results) ==
    IF results = << >> THEN << >>
    ELSE insertNewCar(results[Len(results)],
                      sortNewCarResults(SubSeq(results, 1, Len(results) - 1)))

\* buildSection: the section its promise resolves to, or the error it rejects
\* with; a section built over an undefined response has no results and no
\* totalResults (-1)
buildSection(sectionResponse, sectionName, resultType, sectionTitle, sorter) ==
    IF sectionResponse.t = "undefined"
    THEN IF sorter THEN TypeError
         ELSE [t |-> "object", type |-> "section", name |-> sectionName,
               title |-> sectionTitle, resultType |-> resultType,
               results |-> Undefined, totalResults |-> -1]
    ELSE [t |-> "object", type |-> "section", name |-> sectionName,
          title |-> sectionTitle, resultType |-> resultType,
          results |-> Arr(IF sorter THEN sortNewCarResults(sectionResponse.results)
                          ELSE sectionResponse.results),
          totalResults |-> sectionResponse.totalResults]

\* variant: a section is kept when its total is not zero
hasTotalResults(section) == section.totalResults > 0

\* result => result.results && result.results.length > 0
hasResults(section) == section.results.t = "array" /\ Len(section.results.v) > 0

\* variant: the totals of the sections with results are added up
RECURSIVE sectionTotalsOfReturned(_)
sectionTotalsOfReturned(responses) ==
    IF responses = << >> THEN 0
    ELSE (IF hasResults(Head(responses)) THEN Max(Head(responses).totalResults, 0) ELSE 0)
            + sectionTotalsOfReturned(Tail(responses))

\* the _.forEach of composeSections: totalResults += _.get(response, 'totalResults', 0)
RECURSIVE sectionTotals(_)
sectionTotals(responses) ==
    IF responses = << >> THEN 0
    ELSE Max(Head(responses).totalResults, 0) + sectionTotals(Tail(responses))

\* composeSections over the outcomes of its sections: Promise.all rejects with
\* the error of a rejected section, else the sections with results are returned
composeSections(sections) ==
    IF \E i \in 1..Len(sections) : sections[i].t = "error"
    THEN sections[CHOOSE i \in 1..Len(sections) :
                    /\ sections[i].t = "error"
                    /\ \A j \in 1..(i - 1) : sections[j].t # "error"]
    ELSE [t |-> "object", results |-> SelectSeq(sections, hasResults),
          totalResults |-> sectionTotals(sections)]

-----------------------------------------------------------------------------
(* view: the post filters and the callback of the scroll *)

\* postFilters: the value of a post filter, null (Null) when the request has
\* no truthy value and the config no truthy default
postFilterValue(filterConfig, key, in) ==
    IF in.filter.t = "object" /\ key \in DOMAIN in.filter.v /\ Truthy(in.filter.v[key])
    THEN in.filter.v[key]
    ELSE IF Truthy(filterConfig.defaultValue) THEN filterConfig.defaultValue
    ELSE Null

\* postFilters: the filter functions of the filter configs of type 'post' that
\* have a value, in the order of the filter configs; undefined when the type
\* config has no filter configs
RECURSIVE postFiltersLoop(_, _, _, _)
postFiltersLoop(filterConfigs, filterKeys, i, in) ==
    IF i > Len(filterKeys) THEN << >>
    ELSE LET filterConfig == filterConfigs[filterKeys[i]]
         IN (IF filterConfig.type = "post"
                    /\ Truthy(postFilterValue(filterConfig, filterKeys[i], in))
             THEN <<filterConfig.filter>> ELSE << >>)
                \o postFiltersLoop(filterConfigs, filterKeys, i + 1, in)

postFilters(typeConfig, in) ==
    IF typeConfig.filters.t = "undefined" THEN Undefined
    ELSE Arr(postFiltersLoop(typeConfig.filters.v, typeConfig.filterKeys, 1, in))

\* postFilter(doc): the filter function of a config tests the field of the
\* document that carries its name
postFilter(name, doc) == doc[name]

\* variant: a document passes when some post filter accepts it
passesSome(filters, doc) ==
    filters.t = "undefined" \/ \E i \in 1..Len(filters.v) : postFilter(filters.v[i], doc)

\* !postFilters || _.every(postFilters, postFilter => postFilter(doc))
passes(filters, doc) ==
    filters.t = "undefined" \/ \A i \in 1..Len(filters.v) : postFilter(filters.v[i], doc)

\* the _.forEach over the hits of a page
RECURSIVE viewHitsLoop(_, _, _, _)
viewHitsLoop(hits, i, filters, finalResponse) ==
    IF i > Len(hits) THEN finalResponse
    ELSE viewHitsLoop(hits, i + 1, filters,
            IF passes(filters, hits[i]._source)
            THEN [totalResults |-> finalResponse.totalResults + 1,
                  results |-> Append(finalResponse.results, hits[i]._source)]
            ELSE finalResponse)

\* the callback view gives to allPages: finalResponse after a page
viewCallback(page, filters, finalResponse) ==
    IF page.t = "response" /\ page.hits.t = "object" /\ page.hits.hits.t = "array"
    THEN viewHitsLoop(page.hits.hits.v, 1, filters, finalResponse)
    ELSE finalResponse

\* esClient.allPages: the promise resolves when the callback has returned for
\* the last page of the scroll
allPagesResolved(pages, delivered) == delivered = Len(pages)

-----------------------------------------------------------------------------
(* Inputs *)

\* the hits of one backend response: ids base+1, base+2, ... in backend order
HitLists(scores, weights, n, base) ==
    { [i \in 1..Len(sw) |->
         [_id |-> base + i, _score |-> sw[i][1], _weight |-> sw[i][2], _source |-> HitSource]]
      : sw \in SeqUpTo(scores \X weights, n) }

BackendResponse(hits, total) == [hits |-> [total |-> total, hits |-> hits], took |-> 1]

\* a response that carries at least as many total hits as it returns
Responses(scores, weights, n, maxTotal, base) ==
    UNION { {BackendResponse(hits, total) : total \in Len(hits)..Max(maxTotal, Len(hits))}
            : hits \in HitLists(scores, weights, n, base) }

\* the batches of n responses, each response with every took of Tooks
Tooks == {1, 2}
TookBatches(batches, n) ==
    { [i \in 1..n |-> [batch[i] EXCEPT !.took = tooks[i]]]
      : batch \in batches, tooks \in [1..n -> Tooks] }

\* a response of the autocomplete batch: the total is the number of hits
SuggestionResponses(base) ==
    { BackendResponse(hits, Len(hits)) : hits \in HitLists(GroupScores, Weights, MaxGroupHits, base) }

\* a probe response: total hits, of which at most one is returned
ProbeResponses(base) ==
    { BackendResponse([i \in 1..Min(total, 1) |->
          [_id |-> base + i, _score |-> 1, _weight |-> 0, _source |-> HitSource]], total)
      : total \in 0..MaxProbeHits }

\* the processed results a section is built over
SectionResults ==
    {<< >>,
     <<[_id |-> 1, _score |-> 5, _type |-> "new_car_variant"]>>,
     <<[_id |-> 1, _score |-> 5, _type |-> "new_car_variant"],
       [_id |-> 2, _score |-> 5, _type |-> "new_car_model"]>>}

\* _.get(multiResponse, 'results[i]'): undefined, or a result of the batch
\* with its own type and resultType
SectionResponses ==
    {Undefined} \cup
    { [t |-> "object", type |-> "product", resultType |-> "product", results |-> results,
       totalResults |-> total, count |-> Len(results)]
      : results \in SectionResults, total \in {0, 2} }

\* the names, result types and titles of the sections of the cascade
sectionNames == <<"new_car", "used-cars", "news", "new-car-dealers", "more">>
sectionResultTypes == <<"new_car", "used_car", "car_news", "new_car_dealer", "more">>
sectionTitles == <<"New Cars", "Used Cars", "News", "New Car Dealers", "More">>

\* the arguments of the buildSection calls of one composeSections call: the
\* first section may carry the sorter
SectionArguments ==
    UNION { { [i \in 1..n |->
                 [sectionResponse |-> responses[i], sectionName |-> sectionNames[i],
                  resultType |-> sectionResultTypes[i], sectionTitle |-> sectionTitles[i],
                  sorter |-> (i = 1 /\ sorter)]]
              : responses \in [1..n -> SectionResponses], sorter \in BOOLEAN }
            : n \in 1..MaxSections }

\* the types of a multi-type request, in the order their queries are submitted
typeOrTypesArray == <<"car", "news">>

Apis == {"_processResponse", "search", "suggestedQueries", "carDekhoIntentBasedSearch",
         "composeSections"}

MaxScrollPages == 2   \* pages of one scroll

\* the documents of a view: brand and price say whether the post filter of
\* that name accepts the document
ViewDocs == [id : {1, 2}, brand : BOOLEAN, price : BOOLEAN]

\* a page of the scroll: no response, a response without hits, or up to two
\* hits
ViewPages ==
    {Null, [t |-> "response", hits |-> Undefined]}
        \cup { [t |-> "response",
                hits |-> [t |-> "object",
                          hits |-> Arr([i \in 1..Len(docs) |-> [_source |-> docs[i]]])]]
               : docs \in {<< >>} \cup {<<d>> : d \in ViewDocs}
                            \cup {<<[id |-> 1, brand |-> b[1], price |-> b[2]],
                                    [id |-> 2, brand |-> b[3], price |-> TRUE]>>
                                  : b \in [1..3 -> BOOLEAN]} }

\* the view configs: no filter configs, or those of brand and price, of type
\* 'post' or not, with and without a default value
ViewConfigs ==
    {[filters |-> Undefined, filterKeys |-> << >>]}
        \cup { [filterKeys |-> <<"brand", "price">>,
                filters |-> [t |-> "object",
                             v |-> [k \in {"brand", "price"} |->
                                      IF k = "brand"
                                      THEN [type |-> type, defaultValue |-> defaultValue,
                                            filter |-> "brand"]
                                      ELSE [type |-> "post", defaultValue |-> Undefined,
                                            filter |-> "price"]]]]
               : type \in {"", "post"}, defaultValue \in {Undefined, Str("d")} }

ViewInputs ==
    {[filter |-> Undefined]}
        \cup { [filter |-> [t |-> "object", v |-> [k \in {"brand", "price"} |-> f[k]]]]
               : f \in [{"brand", "price"} -> {Undefined, Str("a")}] }

-----------------------------------------------------------------------------
(* The call *)

InitProcessResponse ==
    /\ api = "_processResponse"
    /\ response \in Responses(Scores, {0}, MaxHits, MaxTotal, 0)
    /\ input \in {in \in [page : 0..MaxPage, count : 1..MaxHits] :
                    in.count >= Len(response.hits.hits)}
    /\ searchTypeConfig = None

InitSearch ==
    /\ api = "search"
    /\ response \in [responses :
                        TookBatches(Responses(GroupScores, {0}, MaxGroupHits, MaxGroupTotal, 10)
                                    \X Responses(GroupScores, {0}, MaxGroupHits, MaxGroupTotal, 20),
                                    2)]
    /\ input \in {in \in [page : 0..MaxPage, count : 1..MaxGroupHits] :
                    \A i \in 1..2 : in.count >= Len(response.responses[i].hits.hits)}
    /\ searchTypeConfig = None

InitSuggestedQueries ==
    /\ api = "suggestedQueries"
    /\ response \in [responses : SuggestionResponses(10) \X SuggestionResponses(20)]
    /\ input = [page |-> 0, count |-> MaxGroupHits]
    /\ searchTypeConfig = None

InitCarDekho ==
    /\ api = "carDekhoIntentBasedSearch"
    /\ response \in [responses :
                        TookBatches(ProbeResponses(10) \X ProbeResponses(20) \X ProbeResponses(30), 3)]
    /\ input = [page |-> 0, count |-> 1]
    /\ searchTypeConfig = None

InitComposeSections ==
    /\ api = "composeSections"
    /\ input \in SectionArguments
    /\ response = None
    /\ searchTypeConfig = None

\* view: response holds the pages the scroll delivers
InitView ==
    /\ api = "view"
    /\ response \in SeqUpTo(ViewPages, MaxScrollPages)
    /\ input \in ViewInputs
    /\ searchTypeConfig \in ViewConfigs

Init ==
    /\ pc = "call"
    /\ local = None
    /\ result = None
    /\ trace = << >>
    /\ \/ InitProcessResponse
       \/ InitSearch
       \/ InitSuggestedQueries
       \/ InitCarDekho
       \/ InitComposeSections
       \/ InitView

\* processSingleSearchResponse's call of _processResponse on one response
ProcessResponse ==
    /\ pc = "call" /\ api = "_processResponse"
    /\ result' = _processResponse(response, "car", input)
    /\ local' = None
    /\ pc' = "done"
    /\ UNCHANGED <<api, input, searchTypeConfig, response, trace>>

\* _searchInternal on a multi-type request, from the batch's responses on
SearchMulti ==
    /\ pc = "call" /\ api = "search"
    /\ result' = processMultipleSearchResponse(response.responses, typeOrTypesArray, input)
    /\ local' = None
    /\ pc' = "done"
    /\ UNCHANGED <<api, input, searchTypeConfig, response, trace>>

\* suggestedQueries, from the batch's responses on
SuggestedQueries ==
    /\ pc = "call" /\ api = "suggestedQueries"
    /\ LET merged == processMultipleSearchResponse(response.responses, typeOrTypesArray, input)
           hits == GroupHits(merged.results)
       IN /\ local' = [merged |-> merged,
                       relevancyScores |-> relevancyScores(hits),
                       deflectionScore |-> deflectionScoreOf(hits)]
          /\ result' = deflect(merged)
    /\ pc' = "done"
    /\ UNCHANGED <<api, input, searchTypeConfig, response, trace>>

\* the classification step of carDekhoIntentBasedSearch, from the probe batch's
\* responses on
CarDekhoClassify ==
    /\ pc = "call" /\ api = "carDekhoIntentBasedSearch"
    /\ LET multiResponse == processMultipleSearchResponseAsArray(response.responses, input)
           brandHits == probeHits(multiResponse, 1)
           modelHits == probeHits(multiResponse, 2)
           variantHits == probeHits(multiResponse, 3)
       IN /\ local' = [brandHits |-> brandHits, modelHits |-> modelHits,
                       variantHits |-> variantHits,
                       searchType |-> searchTypeOf(brandHits, modelHits, variantHits)]
          /\ result' = multiResponse
    /\ pc' = "done"
    /\ UNCHANGED <<api, input, searchTypeConfig, response, trace>>

\* composeSections(buildSection(...), ...): resolved, or rejected with the error
\* of a section
ComposeSections ==
    /\ pc = "call" /\ api = "composeSections"
    /\ LET sections == [i \in 1..Len(input) |->
                          buildSection(input[i].sectionResponse, input[i].sectionName,
                                       input[i].resultType, input[i].sectionTitle,
                                       input[i].sorter)]
       IN /\ local' = [sections |-> sections]
          /\ result' = composeSections(sections)
          /\ pc' = IF composeSections(sections).t = "error" THEN "thrown" ELSE "done"
    /\ UNCHANGED <<api, input, searchTypeConfig, response, trace>>

\* view up to its call of esClient.allPages
ViewCall ==
    /\ pc = "call" /\ api = "view"
    /\ local' = [postFilters |-> postFilters(searchTypeConfig, input),
                 finalResponse |-> [totalResults |-> 0, results |-> << >>],
                 delivered |-> 0]
    /\ pc' = "scrolling"
    /\ UNCHANGED <<api, input, searchTypeConfig, response, result, trace>>

\* the callback of view on the next page of the scroll
ViewPage ==
    /\ pc = "scrolling" /\ api = "view"
    /\ ~allPagesResolved(response, local.delivered)
    /\ local' = [local EXCEPT
                    !.finalResponse = viewCallback(response[local.delivered + 1],
                                                   local.postFilters, @),
                    !.delivered = @ + 1]
    /\ UNCHANGED <<pc, api, input, searchTypeConfig, response, result, trace>>

\* .then(() => finalResponse)
ViewReturn ==
    /\ pc = "scrolling" /\ api = "view"
    /\ allPagesResolved(response, local.delivered)
    /\ result' = local.finalResponse
    /\ pc' = "done"
    /\ UNCHANGED <<api, input, searchTypeConfig, response, local, trace>>

Next ==
    \/ ProcessResponse
    \/ SearchMulti
    \/ SuggestedQueries
    \/ CarDekhoClassify
    \/ ComposeSections
    \/ ViewCall
    \/ ViewPage
    \/ ViewReturn

Spec == Init /\ [][Next]_vars

-----------------------------------------------------------------------------
(* Query compiler: clauses *)

\* query == null
NullQuery == [q |-> "null"]

\* constantScoreQuery: a filter clause and a humane_query are returned as they
\* are; another clause is wrapped when the weight is not 1
constantScoreQuery(fieldConfig, query) ==
    IF fieldConfig.filter \/ query.q \in {"humane_query", "multi_humane_query"} THEN query
    ELSE LET boost == IF fieldConfig.weight = 0 THEN 1 ELSE fieldConfig.weight
         IN IF boost = 1 THEN query
            ELSE [q |-> "constant_score", query |-> query, boost |-> boost]

\* wrapQuery; nestedPath "" is undefined
wrapQuery(fieldConfig, query) ==
    constantScoreQuery(fieldConfig,
        IF fieldConfig.nestedPath # ""
        THEN [q |-> "nested", path |-> fieldConfig.nestedPath, query |-> query]
        ELSE query)

\* humaneQuery: the free-text clause of a filter
humaneQuery(fieldConfig, text) ==
    [q |-> "humane_query", field |-> fieldConfig.field, query |-> text,
     boost |-> fieldConfig.weight, noFuzzy |-> fieldConfig.noFuzzy]

\* termQuery: terms for an array, term otherwise
termQuery(fieldConfig, text) ==
    [q |-> IF text.t = "array" THEN "terms" ELSE "term",
     field |-> fieldConfig.field, value |-> text]

\* boolShouldQueries
boolShouldQueries(queryArray) ==
    IF Len(queryArray) = 0 THEN NullQuery
    ELSE IF Len(queryArray) = 1 THEN queryArray[1]
    ELSE [q |-> "bool_should", should |-> queryArray, minimum_should_match |-> 1]

\* missingQuery: bool.must_not.exists
missingQuery(field) == [q |-> "missing", field |-> field]

\* existsQuery: bool.must.exists
existsQuery(field) == [q |-> "exists", field |-> field]

\* the values a range filter walks: a value that is no array is wrapped in one
AsArray(valueOrArrayOfValue) ==
    IF valueOrArrayOfValue.t = "array" THEN valueOrArrayOfValue.v ELSE <<valueOrArrayOfValue>>

rangeClause(field, from, to) == [q |-> "range", field |-> field, gte |-> from, lt |-> to]

\* the clause of the value, before includeMissing
valueQuery(fieldConfig, valueOrArrayOfValue) ==
    IF fieldConfig.filter /\ fieldConfig.rangeQuery
    THEN LET values == AsArray(valueOrArrayOfValue)
         IN boolShouldQueries([i \in 1..Len(values) |->
                rangeClause(fieldConfig.field, FromOf(values[i]), ToOf(values[i]))])
    ELSE IF fieldConfig.filter /\ fieldConfig.termQuery
    THEN IF IsStr(valueOrArrayOfValue, "__not_empty__")
         THEN existsQuery(fieldConfig.field)
         ELSE termQuery(fieldConfig, valueOrArrayOfValue)
    ELSE humaneQuery(fieldConfig, valueOrArrayOfValue)

\* whether the field-does-not-exist alternative is added; a range filter has
\* replaced a value that is no array by an array, which is never the sentinel
\* variant: the '__not_empty__' exception is left out
addsMissingForSentinelToo(fieldConfig, valueOrArrayOfValue) ==
    /\ fieldConfig.filter /\ (fieldConfig.termQuery \/ fieldConfig.rangeQuery)
    /\ fieldConfig.includeMissing

addsMissing(fieldConfig, valueOrArrayOfValue) ==
    /\ fieldConfig.filter /\ (fieldConfig.termQuery \/ fieldConfig.rangeQuery)
    /\ fieldConfig.includeMissing
    /\ ~(IsStr(valueOrArrayOfValue, "__not_empty__") /\ ~fieldConfig.rangeQuery)

\* buildFieldQuery: the clauses it pushes onto queries (none when query == null)
buildFieldQuery(fieldConfig, valueOrArrayOfValue) ==
    LET query == valueQuery(fieldConfig, valueOrArrayOfValue)
        wrapped == wrapQuery(fieldConfig, query)
    IN IF query.q = "null" THEN << >>
       ELSE IF addsMissing(fieldConfig, valueOrArrayOfValue)
       THEN <<boolShouldQueries(<<wrapped, wrapQuery(fieldConfig, missingQuery(fieldConfig.field))>>)>>
       ELSE <<wrapped>>

-----------------------------------------------------------------------------
(* Query compiler: filterQueries and facetQueries *)

\* isValidValue
isValidValue(value) == value.t \notin {"undefined", "null"}

\* input.filter[key]; a key the request does not carry is undefined
FilterOf(in, key) == IF key \in DOMAIN in.filter THEN in.filter[key] ELSE Undefined

\* the value of langFilter: value.secondary and value.primary of a value that
\* has neither are undefined
langFilterValue(value) == Undefined

\* filterConfig.value(filterValue) when filterConfig.value is a function
transformed(filterConfig, filterValue) ==
    IF filterConfig.value = "langFilter" THEN langFilterValue(filterValue) ELSE filterValue

\* the unwrapping of an object value: [filterValue, range]
unwrapped(filterValue) ==
    IF ~isObject(filterValue) THEN [filterValue |-> filterValue, range |-> FALSE]
    ELSE IF Truthy(Prop(filterValue, "value"))
         THEN [filterValue |-> Prop(filterValue, "value"), range |-> FALSE]
    ELSE IF Truthy(Prop(filterValue, "values"))
         THEN [filterValue |-> Prop(filterValue, "values"), range |-> FALSE]
    ELSE IF Truthy(Prop(filterValue, "range"))
         THEN [filterValue |-> Prop(filterValue, "range"), range |-> TRUE]
    ELSE IF Truthy(Prop(filterValue, "ranges"))
         THEN [filterValue |-> Prop(filterValue, "ranges"), range |-> TRUE]
    ELSE [filterValue |-> filterValue, range |-> FALSE]

\* variant: '__all__' falls back to the default value
effectiveValueDefaultForAll(filterConfig, key, in) ==
    IF isValidValue(FilterOf(in, key)) /\ ~IsStr(FilterOf(in, key), "__all__")
    THEN FilterOf(in, key)
    ELSE IF Truthy(filterConfig.defaultValue) THEN filterConfig.defaultValue
    ELSE Null

\* the effective value of a filter: the request's, else the default, else null
effectiveValue(filterConfig, key, in) ==
    IF isValidValue(FilterOf(in, key)) THEN FilterOf(in, key)
    ELSE IF Truthy(filterConfig.defaultValue) THEN filterConfig.defaultValue
    ELSE Null

\* _.defaults({filter: true, rangeQuery: range, termQuery: !range && filterConfig.termQuery}, filterConfig)
filterFieldConfig(filterConfig, range) ==
    [filter |-> TRUE, rangeQuery |-> range, termQuery |-> ~range /\ filterConfig.termQuery,
     field |-> filterConfig.field, nestedPath |-> filterConfig.nestedPath,
     includeMissing |-> filterConfig.includeMissing, weight |-> filterConfig.weight,
     noFuzzy |-> filterConfig.noFuzzy]

\* variant: a facet-typed value is not skipped
skipsFacetTypeNever(filterType) == FALSE

\* if (filterType && filterType === 'facet') return true
skipsFacetType(filterType) == filterType = "facet"

\* the body of the _.forEach of filterQueries: the clauses one filter config
\* pushes onto filterQueries
filterClauses(filterConfig, key, in) ==
    IF filterConfig.type = "post" THEN << >>
    ELSE LET filterValue == effectiveValue(filterConfig, key, in)
         IN IF ~(isValidValue(filterValue) /\ ~IsStr(filterValue, "__all__")) THEN << >>
            ELSE LET filterType == TypeOf(filterValue)
                     u == unwrapped(filterValue)
                 IN IF skipsFacetType(filterType) THEN << >>
                    ELSE buildFieldQuery(filterFieldConfig(filterConfig, u.range),
                                         transformed(filterConfig, u.filterValue))

\* the clause of input.lang, built from filterConfigs.lang
langClauses(filterConfigs, in) ==
    IF Truthy(in.lang)
    THEN buildFieldQuery(
            [filter |-> TRUE, rangeQuery |-> FALSE, termQuery |-> filterConfigs.lang.termQuery,
             field |-> filterConfigs.lang.field, nestedPath |-> filterConfigs.lang.nestedPath,
             includeMissing |-> filterConfigs.lang.includeMissing,
             weight |-> filterConfigs.lang.weight, noFuzzy |-> filterConfigs.lang.noFuzzy],
            in.lang)
    ELSE << >>

\* filterQueries before it collapses the array: the clauses of every filter
\* config in the order of filterKeys, then the language clause
RECURSIVE filterQueriesArray(_, _, _, _)
filterQueriesArray(filterConfigs, filterKeys, i, in) ==
    IF i > Len(filterKeys) THEN langClauses(filterConfigs, in)
    ELSE filterClauses(filterConfigs[filterKeys[i]], filterKeys[i], in)
            \o filterQueriesArray(filterConfigs, filterKeys, i + 1, in)

\* undefined for no clause, the clause for one, the array for more
collapse(queries) ==
    IF Len(queries) = 0 THEN [q |-> "undefined"]
    ELSE IF Len(queries) = 1 THEN queries[1]
    ELSE [q |-> "array", queries |-> queries]

\* the elements _.forEach walks: those of an array, none of undefined
SeqOf(x) == IF x.t = "array" THEN x.v ELSE << >>

\* the entries of the selected keys of a named-filters facet
RECURSIVE matchingFilterQueries(_, _, _)
matchingFilterQueries(values, i, filters) ==
    IF i > Len(values) THEN << >>
    ELSE SelectSeq(filters, LAMBDA f : IsStr(values[i], f.key))
            \o matchingFilterQueries(values, i + 1, filters)

\* the range clauses of the selected keys of a discrete-ranges facet
RECURSIVE matchingRangeQueries(_, _, _)
matchingRangeQueries(values, i, facetConfig) ==
    IF i > Len(values) THEN << >>
    ELSE LET selected == SelectSeq(SeqOf(facetConfig.ranges), LAMBDA r : IsStr(values[i], r.key))
         IN [j \in 1..Len(selected) |->
                rangeClause(facetConfig.field, selected[j].from, selected[j].to)]
            \o matchingRangeQueries(values, i + 1, facetConfig)

\* boolShouldQueries over the clauses of a facet, pushed when it is not null
pushedShould(queryArray) ==
    IF Len(queryArray) = 0 THEN << >> ELSE <<boolShouldQueries(queryArray)>>

\* the guards of facetQueries: a truthy object value whose type is 'facet'
facetApplies(filterValue) ==
    /\ Truthy(filterValue) /\ ~IsStr(filterValue, "__all__") /\ isObject(filterValue)
    /\ TypeOf(filterValue) = "facet"

\* the body of the _.forEach of facetQueries: the clauses one facet config
\* pushes onto facetQueries
facetClauses(facetConfig, in) ==
    LET filterValue == FilterOf(in, facetConfig.key)
    IN IF ~facetApplies(filterValue) THEN << >>
       ELSE LET u == unwrapped(filterValue)
            IN CASE facetConfig.type \in {"field", "min-max"} ->
                      buildFieldQuery(
                        [filter |-> TRUE, termQuery |-> ~u.range, rangeQuery |-> u.range,
                         field |-> facetConfig.field, nestedPath |-> facetConfig.nestedPath,
                         includeMissing |-> facetConfig.includeMissing,
                         weight |-> 0, noFuzzy |-> FALSE],
                        u.filterValue)
                 [] facetConfig.type = "filters" ->
                      LET matching == matchingFilterQueries(AsArray(u.filterValue), 1,
                                                            SeqOf(facetConfig.filters))
                      IN pushedShould([j \in 1..Len(matching) |-> matching[j].filter])
                 [] facetConfig.type = "ranges" ->
                      pushedShould(matchingRangeQueries(AsArray(u.filterValue), 1, facetConfig)
                             \o (IF facetConfig.includeMissing
                                 THEN <<missingQuery(facetConfig.field)>> ELSE << >>))
                 [] OTHER -> << >>

\* searchTypeConfig.facets as facetQueries walks it: no facet config when it
\* is undefined
facetConfigsOf(typeConfig) == SeqOf(typeConfig.facets)

\* facetQueries before it collapses the array
RECURSIVE facetQueriesArray(_, _, _)
facetQueriesArray(facetConfigs, i, in) ==
    IF i > Len(facetConfigs) THEN << >>
    ELSE facetClauses(facetConfigs[i], in) \o facetQueriesArray(facetConfigs, i + 1, in)

-----------------------------------------------------------------------------
(* Query compiler: facet and facetsPart *)

\* an object: a map from its keys to its values; {} has no key
Obj(props) == [t |-> "object", v |-> props]
NoProps == [k \in {} |-> Undefined]

\* _.isEmpty of an object
isEmpty(obj) == DOMAIN obj.v = {}

\* props[key] = value
Put(props, key, value) ==
    [k \in DOMAIN props \cup {key} |-> IF k = key THEN value ELSE props[k]]

\* new ValidationError(message, {details: {code}})
ValidationError(code) == [t |-> "error", _errorCode |-> "VALIDATION_ERROR", code |-> code]

\* facetAggregation
facetAggregation(aggregationConfig) ==
    [agg |-> aggregationConfig.type, field |-> aggregationConfig.field]

\* !range.from && !range.to; -1 is undefined
NoRangeEnds(range) == range.from \in {-1, 0} /\ range.to \in {-1, 0}

\* the checks of the _.map over facetConfig.ranges: the code of the first that
\* fails, "" when none does
RECURSIVE rangesErrorCode(_, _)
rangesErrorCode(ranges, i) ==
    IF i > Len(ranges) THEN ""
    ELSE IF ranges[i].key = "" THEN "NO_RANGE_FACET_KEY_DEFINED"
    ELSE IF NoRangeEnds(ranges[i]) THEN "NO_RANGE_ENDS_DEFINED"
    ELSE rangesErrorCode(ranges, i + 1)

\* the checks of facet in the order of the code: the code of the error it
\* throws, "" when it throws none; key, type and field "" are undefined
facetErrorCode(facetConfig) ==
    IF facetConfig.key = "" THEN "NO_FACET_NAME_DEFINED"
    ELSE IF facetConfig.type = "" THEN "NO_FACET_TYPE_DEFINED"
    ELSE IF facetConfig.type \in {"field", "ranges"} /\ facetConfig.field = ""
    THEN "NO_FACET_FIELD_DEFINED"
    ELSE IF facetConfig.type \in {"field", "min-max"} THEN ""
    ELSE IF facetConfig.type = "ranges"
    THEN IF ~Truthy(facetConfig.ranges) THEN "NO_RANGES_DEFINED"
         ELSE rangesErrorCode(SeqOf(facetConfig.ranges), 1)
    ELSE IF facetConfig.type = "filters"
    THEN IF ~Truthy(facetConfig.filters) THEN "NO_FILTERS_DEFINED" ELSE ""
    ELSE "UNKNOWN_FACET_TYPE"

\* summaryAggregations of facet: one aggregation per summary, under its own key
summaryAggregations(summariesConfig) ==
    Obj([summaryKey \in DOMAIN summariesConfig.v |->
            facetAggregation(summariesConfig.v[summaryKey])])

\* if (summariesConfig) facetValue.aggs = summaryAggregations
subAggregations(summariesConfig) ==
    IF Truthy(summariesConfig) THEN summaryAggregations(summariesConfig) ELSE Undefined

\* filters[filter.key] = filter.filter
RECURSIVE namedFilters(_, _, _)
namedFilters(filters, i, acc) ==
    IF i > Len(filters) THEN acc
    ELSE namedFilters(filters, i + 1, Put(acc, filters[i].key, filters[i].filter))

\* facet: the value of a facet config that passes the checks
facetValue(facetConfig, summariesConfig) ==
    LET aggs == subAggregations(summariesConfig)
        bucket ==
            CASE facetConfig.type = "field" ->
                    [agg |-> "terms", field |-> facetConfig.field, size |-> 1000, aggs |-> aggs]
              [] facetConfig.type = "min-max" ->
                    [agg |-> "stats", field |-> facetConfig.field, aggs |-> aggs]
              [] facetConfig.type = "ranges" ->
                    [agg |-> "range", field |-> facetConfig.field,
                     ranges |-> SeqOf(facetConfig.ranges), aggs |-> aggs]
              [] facetConfig.type = "filters" ->
                    [agg |-> "filters",
                     filters |-> namedFilters(SeqOf(facetConfig.filters), 1, NoProps),
                     aggs |-> aggs]
    IN IF facetConfig.type \in {"field", "ranges", "min-max"} /\ facetConfig.nestedPath # ""
       THEN [agg |-> "nested", path |-> facetConfig.nestedPath,
             aggs |-> Obj([k \in {"nested"} |-> bucket])]
       ELSE bucket

\* `__summary_${summaryKey}__`
summaryFacetKey(summaryKey) == "__summary_" \o summaryKey \o "__"

\* the facets object after the _.forEach over searchTypeConfig.summaries
summaryFacets(summariesConfig) ==
    IF ~Truthy(summariesConfig) THEN NoProps
    ELSE [key \in {summaryFacetKey(summaryKey) : summaryKey \in DOMAIN summariesConfig.v} |->
            facetAggregation(summariesConfig.v[
                CHOOSE summaryKey \in DOMAIN summariesConfig.v : summaryFacetKey(summaryKey) = key])]

\* the _.forEach over facetConfigs: the error of the first facet that throws,
\* else the facets object
RECURSIVE facetsLoop(_, _, _, _)
facetsLoop(facetConfigs, i, summariesConfig, facets) ==
    IF i > Len(facetConfigs) THEN Obj(facets)
    ELSE IF facetErrorCode(facetConfigs[i]) # ""
    THEN ValidationError(facetErrorCode(facetConfigs[i]))
    ELSE facetsLoop(facetConfigs, i + 1, summariesConfig,
                    Put(facets, facetConfigs[i].key, facetValue(facetConfigs[i], summariesConfig)))

\* facetsPart: null when the type config has no facets
facetsPart(typeConfig) ==
    IF ~Truthy(typeConfig.facets) THEN Null
    ELSE facetsLoop(SeqOf(typeConfig.facets), 1, typeConfig.summaries,
                    summaryFacets(typeConfig.summaries))

\* variant: an empty facets object is kept
aggsKeepingEmpty(facets) == IF ~Truthy(facets) THEN Undefined ELSE facets

\* let facets = this.facetsPart(searchTypeConfig) || undefined;
\* if (facets && _.isEmpty(facets)) facets = undefined
aggsOf(facets) ==
    IF ~Truthy(facets) THEN Undefined
    ELSE IF isEmpty(facets) THEN Undefined
    ELSE facets

-----------------------------------------------------------------------------
(* Query compiler: buildTypeQuery and searchQuery *)

\* variant: vernacular-only fields are not filtered out
allQueryFields(queryFields) == queryFields

\* _(queryFields).filter(queryField => !queryField.vernacularOnly)
activeQueryFields(queryFields) ==
    SelectSeq(queryFields, LAMBDA queryField : ~queryField.vernacularOnly)

\* buildTypeQuery: the query it returns, undefined for an empty text
buildTypeQuery(typeConfig, text, fuzzySearch) ==
    LET queryFields == activeQueryFields(typeConfig.queryFields)
    IN IF text = "" THEN [q |-> "undefined"]
       ELSE IF Len(queryFields) = 1
       THEN LET queryField == queryFields[1]
            IN wrapQuery(queryField,
                 [q |-> "humane_query", field |-> queryField.field, query |-> Str(text),
                  boost |-> queryField.weight, vernacularOnly |-> queryField.vernacularOnly,
                  noFuzzy |-> ~fuzzySearch \/ queryField.noFuzzy])
       ELSE [q |-> "multi_humane_query", query |-> Str(text),
             fields |-> [i \in 1..Len(queryFields) |->
                           [field |-> queryFields[i].field, boost |-> queryFields[i].weight,
                            vernacularOnly |-> queryFields[i].vernacularOnly,
                            path |-> queryFields[i].nestedPath,
                            noFuzzy |-> ~fuzzySearch \/ queryFields[i].noFuzzy]]]

\* the error searchQuery throws: that of facetsPart; None when it throws none
searchQueryThrown(typeConfig) ==
    IF facetsPart(typeConfig).t = "error" THEN facetsPart(typeConfig) ELSE None

\* searchQuery with _searchQueryInternal: the envelope of one type when
\* facetsPart throws nothing; sort is not modelled
searchQuery(typeConfig, in, query) ==
    [index |-> typeConfig.index, type |-> typeConfig.type,
     search |->
        [from |-> in.page * in.count, size |-> in.count,
         query |-> [must |-> IF query.q = "undefined" THEN [q |-> "match_all"] ELSE query,
                    filter |-> collapse(filterQueriesArray(typeConfig.filters,
                                                          typeConfig.filterKeys, 1, in))],
         post_filter |-> collapse(facetQueriesArray(facetConfigsOf(typeConfig), 1, in)),
         aggs |-> aggsOf(facetsPart(typeConfig))]]

-----------------------------------------------------------------------------
(* Query compiler: sortPart *)

\* _.lowerCase of a sort order
lowerCase(order) ==
    CASE order = "ASC" -> "asc"
      [] order = "DESC" -> "desc"
      [] order = "Desc" -> "desc"
      [] OTHER -> order

\* defaultSortOrder: this.searchConfig.defaultSortOrder || Constants.DESC_SORT_ORDER;
\* "" is undefined
defaultSortOrder(configured) == IF configured # "" THEN configured ELSE "DESC"

\* sortOrder
sortOrder(order, configured) ==
    IF order # "" THEN lowerCase(order) ELSE lowerCase(defaultSortOrder(configured))

\* buildSort: {[config]: order} of a string, the result of sortFn, or
\* {[config.field]: order} of an object
buildSort(config, order, configured) ==
    IF config.kind = "string"
    THEN [field |-> config.field, order |-> sortOrder(order, configured), sortFn |-> FALSE]
    ELSE [field |-> config.field, order |-> sortOrder(order, configured),
          sortFn |-> config.sortFn]

\* buildDefaultSort: the clauses of the objects flagged default, in order
buildDefaultSort(sortConfigs, configured) ==
    LET defaults == SelectSeq(sortConfigs, LAMBDA config : config.kind = "object" /\ config.default)
    IN Arr([i \in 1..Len(defaults) |-> buildSort(defaults[i], "", configured)])

\* the config matches input.sort.field
matchesSortField(config, field) == config.field = field

\* _.find(sortConfigs, ...): the position of the first match, 0 when none
RECURSIVE findSortConfig(_, _, _)
findSortConfig(sortConfigs, field, i) ==
    IF i > Len(sortConfigs) THEN 0
    ELSE IF matchesSortField(sortConfigs[i], field) THEN i
    ELSE findSortConfig(sortConfigs, field, i + 1)

\* input.sort && input.sort.field
namesSortField(in) == in.sort.t = "sort" /\ in.sort.field # ""

\* variant: a sort field that matches no entry falls back to the default sorts
sortPartFallingBack(typeConfig, in, configured) ==
    IF typeConfig.sort.t # "array" THEN Undefined
    ELSE IF namesSortField(in) /\ findSortConfig(typeConfig.sort.v, in.sort.field, 1) # 0
    THEN buildSort(typeConfig.sort.v[findSortConfig(typeConfig.sort.v, in.sort.field, 1)],
                   in.sort.order, configured)
    ELSE buildDefaultSort(typeConfig.sort.v, configured)

\* sortPart
sortPart(typeConfig, in, configured) ==
    IF typeConfig.sort.t # "array" THEN Undefined
    ELSE IF namesSortField(in)
    THEN IF findSortConfig(typeConfig.sort.v, in.sort.field, 1) # 0
         THEN buildSort(typeConfig.sort.v[findSortConfig(typeConfig.sort.v, in.sort.field, 1)],
                        in.sort.order, configured)
         ELSE Undefined
    ELSE buildDefaultSort(typeConfig.sort.v, configured)

\* searchQuery: let sort = this.sortPart(...) || undefined;
\* if (sort && _.isEmpty(sort)) sort = undefined
sortOf(sort) ==
    IF "t" \in DOMAIN sort /\ sort.t = "undefined" THEN Undefined
    ELSE IF "t" \in DOMAIN sort /\ sort.t = "array" /\ sort.v = << >> THEN Undefined
    ELSE sort

-----------------------------------------------------------------------------
(* Intent cascade: the queries of the intent suggestions *)

\* buildIntentTokenQuery: the literal token or its encoded form, on the
\* shingle field for a bigram token
buildIntentTokenQuery(intentToken, weight, field) ==
    LET fieldSuffix == IF intentToken.match_token_type = "Bi" THEN "shingle" ELSE "humane"
    IN [q |-> "bool",
        should |-> <<[q |-> "term", field |-> <<field, fieldSuffix>>,
                      value |-> intentToken.token,
                      boost |-> 10 * weight * intentToken.score],
                     [q |-> "term", field |-> <<field, fieldSuffix>>,
                      value |-> <<"e#", intentToken.token>>,
                      boost |-> 2 * weight * intentToken.score]>>,
        minimum_should_match |-> 1]

\* variant: the threshold is the number of tokens less one
minimumShouldMatchAllButOne(length) == length - 1

\* buildIntentTokenListQuery: minimumShouldMatch of a list of more than one
\* token
minimumShouldMatch(length) ==
    IF length > 2 THEN (IF length <= 4 THEN 2 ELSE 3) ELSE 1

\* buildIntentTokenListQuery; a TypeError for an empty list, whose first
\* token is undefined
buildIntentTokenListQuery(intentTokenList, weight, field) ==
    IF Len(intentTokenList) > 1
    THEN [q |-> "bool",
          should |-> [i \in 1..Len(intentTokenList) |->
                        buildIntentTokenQuery(intentTokenList[i], weight, field)],
          minimum_should_match |-> minimumShouldMatch(Len(intentTokenList))]
    ELSE IF Len(intentTokenList) = 0 THEN TypeError
    ELSE buildIntentTokenQuery(intentTokenList[1], weight, field)

\* buildIntentSuggestionQuery
buildIntentSuggestionQuery(intentSuggestion, field) ==
    buildIntentTokenListQuery(intentSuggestion.intent_tokens, intentSuggestion.score, field)

\* buildIntentSuggestionListQuery; a TypeError for an empty list, and the
\* TypeError of the first suggestion that has no token
buildIntentSuggestionListQuery(intentSuggestionList, field) ==
    LET queries == [i \in 1..Len(intentSuggestionList) |->
                        buildIntentSuggestionQuery(intentSuggestionList[i], field)]
    IN IF Len(intentSuggestionList) = 0 THEN TypeError
       ELSE IF \E i \in 1..Len(queries) : queries[i] = TypeError THEN TypeError
       ELSE IF Len(intentSuggestionList) > 1
       THEN [q |-> "dis_max", tie_breaker |-> <<7, 10>>, boost |-> <<12, 10>>,
             queries |-> queries]
       ELSE queries[1]

-----------------------------------------------------------------------------
(* Inputs of the query compiler *)

MaxQueryFields == 3   \* query fields of one type config

\* langFilter
langFilter ==
    [field |-> "_lang", termQuery |-> TRUE, value |-> "langFilter", type |-> "",
     defaultValue |-> Undefined, includeMissing |-> FALSE, nestedPath |-> "",
     weight |-> 0, noFuzzy |-> FALSE]

\* the filter configs of "brand": free-text or term-equality, post or not, with
\* and without a default value, includeMissing and a nested path
BrandFilterConfigs ==
    [field : {"brand"}, termQuery : BOOLEAN, value : {""}, type : {"", "post"},
     defaultValue : {Undefined, Str("d")}, includeMissing : BOOLEAN,
     nestedPath : {"", "p"}, weight : {0}, noFuzzy : {FALSE}]

PriceFilterConfig ==
    [field |-> "price", termQuery |-> TRUE, value |-> "", type |-> "",
     defaultValue |-> Undefined, includeMissing |-> FALSE, nestedPath |-> "",
     weight |-> 0, noFuzzy |-> FALSE]

\* the facet configs of a key, one of each kind
FacetConfigs(key) ==
    [key : {key}, type : {"field", "min-max", "filters", "ranges"}, field : {key},
     includeMissing : BOOLEAN, nestedPath : {""},
     filters : {Arr(<<[key |-> "a", filter |-> [q |-> "named", field |-> key, key |-> "a"]],
                      [key |-> "c", filter |-> [q |-> "named", field |-> key, key |-> "c"]]>>)},
     ranges : {Arr(<<[key |-> "a", from |-> 1, to |-> 5], [key |-> "c", from |-> 5, to |-> 9]>>)}]

\* the values a request gives a filter
FilterValues ==
    {Undefined, Null, Str("a"), Str("__all__"), Str("__not_empty__"),
     Arr(<<Str("a"), Str("b")>>),
     Wrapper("", Str("a"), Undefined, Undefined, Undefined),
     Wrapper("", Str("__all__"), Undefined, Undefined, Undefined),
     Wrapper("facet", Str("a"), Undefined, Undefined, Undefined),
     Wrapper("facet", Undefined, Arr(<<Str("a"), Str("b")>>), Undefined, Undefined),
     Wrapper("", Undefined, Undefined, RangeObj(1, 5), Undefined),
     Wrapper("facet", Undefined, Undefined, RangeObj(1, 5), Undefined),
     Wrapper("", Undefined, Undefined, Undefined, Arr(<<RangeObj(1, 5), RangeObj(5, 9)>>)),
     Wrapper("", Undefined, Undefined, Undefined, Arr(<< >>)),
     Wrapper("", Undefined, Undefined, Str("__not_empty__"), Undefined),
     Wrapper("facet", Undefined, Undefined, Undefined, Undefined)}

\* a type config with the filters brand, price and lang and at most one facet
SearchTypeConfigs ==
    { [type |-> "car", index |-> "car_store",
       queryFields |-> <<[field |-> "name", weight |-> 2, vernacularOnly |-> FALSE,
                          nestedPath |-> "", noFuzzy |-> FALSE, filter |-> FALSE]>>,
       filterKeys |-> <<"brand", "price", "lang">>,
       filters |-> [k \in {"brand", "price", "lang"} |->
                      CASE k = "brand" -> brandConfig
                        [] k = "price" -> PriceFilterConfig
                        [] k = "lang" -> langFilter],
       facets |-> facets, summaries |-> Undefined]
      : brandConfig \in BrandFilterConfigs,
        facets \in {Arr(<< >>)}
                      \cup {Arr(<<f>>) : f \in FacetConfigs("brand") \cup FacetConfigs("price")} }

\* the facet configs of "brand" as a configuration may give them: with and
\* without key, type, field, ranges and filters, and of an unknown type
AnyFacetConfigs ==
    [key : {"", "brand"}, type : {"", "field", "min-max", "filters", "ranges", "bogus"},
     field : {"", "brand"}, includeMissing : {FALSE}, nestedPath : {"", "p"},
     filters : {Undefined,
                Arr(<<[key |-> "a", filter |-> [q |-> "named", field |-> "brand", key |-> "a"]]>>)},
     ranges : {Undefined,
               Arr(<<[key |-> "a", from |-> 1, to |-> 5], [key |-> "c", from |-> 5, to |-> -1]>>),
               Arr(<<[key |-> "", from |-> 1, to |-> 5]>>),
               Arr(<<[key |-> "a", from |-> -1, to |-> -1]>>)}]

\* searchTypeConfig.summaries: absent, {}, one summary, two summaries
SummariesConfigs ==
    {Undefined, Obj(NoProps),
     Obj([k \in {"total"} |-> [type |-> "sum", field |-> "price"]]),
     Obj([k \in {"total", "best"} |->
            IF k = "total" THEN [type |-> "sum", field |-> "price"]
            ELSE [type |-> "max", field |-> "rating"]])}

\* type configs for the aggregation clause: facets absent, an empty list, one
\* facet config of any shape, or that one followed by a facet of "price"
AggTypeConfigs ==
    { [type |-> "car", index |-> "car_store",
       queryFields |-> <<[field |-> "name", weight |-> 2, vernacularOnly |-> FALSE,
                          nestedPath |-> "", noFuzzy |-> FALSE, filter |-> FALSE]>>,
       filterKeys |-> <<"brand", "price", "lang">>,
       filters |-> [k \in {"brand", "price", "lang"} |->
                      CASE k = "brand" -> [PriceFilterConfig EXCEPT !.field = "brand"]
                        [] k = "price" -> PriceFilterConfig
                        [] k = "lang" -> langFilter],
       facets |-> facets, summaries |-> summaries]
      : summaries \in SummariesConfigs,
        facets \in {Undefined, Arr(<< >>)}
                      \cup {Arr(<<f>>) : f \in AnyFacetConfigs}
                      \cup {Arr(<<f, g>>) : f \in AnyFacetConfigs,
                                             g \in {c \in FacetConfigs("price") : ~c.includeMissing}} }

\* type configs whose filter brand has a default value of every kind, flagged
\* post or not, and whose filter price has none
DefaultValueTypeConfigs ==
    { [type |-> "car", index |-> "car_store",
       queryFields |-> <<[field |-> "name", weight |-> 2, vernacularOnly |-> FALSE,
                          nestedPath |-> "", noFuzzy |-> FALSE, filter |-> FALSE]>>,
       filterKeys |-> <<"brand", "price", "lang">>,
       filters |-> [k \in {"brand", "price", "lang"} |->
                      CASE k = "brand" ->
                             [PriceFilterConfig EXCEPT !.field = "brand", !.type = type,
                                                       !.defaultValue = defaultValue]
                        [] k = "price" -> PriceFilterConfig
                        [] k = "lang" -> langFilter],
       facets |-> Arr(<< >>), summaries |-> Undefined]
      : type \in {"", "post"},
        defaultValue \in {Undefined, Null, Bool(FALSE), Bool(TRUE), Num(0), Num(5),
                          Str("d"), Str("__all__")} }

SearchInputs ==
    [page : {1}, count : {10}, text : {"x"}, fuzzySearch : {TRUE}, lang : {Undefined, Str("en")},
     filter : [{"brand", "price"} -> FilterValues]]

\* a query field: its position names it
QueryFields(i) ==
    [field : {<<"f", i>>}, weight : {0, 2}, vernacularOnly : BOOLEAN, nestedPath : {"", "p"},
     noFuzzy : {FALSE}, filter : {FALSE}]

QueryFieldLists ==
    UNION { {qf \in [1..n -> UNION {QueryFields(i) : i \in 1..n}] :
                \A i \in 1..n : qf[i].field = <<"f", i>>}
            : n \in 0..MaxQueryFields }

-----------------------------------------------------------------------------
(* The calls of the query compiler *)

InitSearchQuery ==
    /\ api = "searchQuery"
    /\ searchTypeConfig \in SearchTypeConfigs
    /\ input \in {in \in SearchInputs : in.filter["price"] \in {Undefined, Str("a")}}
    /\ response = None

\* searchQuery for the type configs of the aggregation clause
InitSearchQueryAggs ==
    /\ api = "searchQuery"
    /\ searchTypeConfig \in AggTypeConfigs
    /\ input \in {in \in SearchInputs :
                    /\ in.filter["price"] = Undefined /\ in.lang = Undefined
                    /\ in.filter["brand"] \in {Undefined, Str("a")}}
    /\ response = None

\* searchQuery for filter configs whose default value is falsy or truthy and
\* requests that give the filter false, 0, a string, or nothing
InitSearchQueryDefaults ==
    /\ api = "searchQuery"
    /\ searchTypeConfig \in DefaultValueTypeConfigs
    /\ input \in [page : {1}, count : {10}, text : {"x"}, fuzzySearch : {TRUE},
                  lang : {Undefined},
                  filter : [{"brand", "price"} ->
                              {Undefined, Null, Bool(FALSE), Num(0), Str("a"), Str("__all__"),
                               Wrapper("facet", Str("a"), Undefined, Undefined, Undefined)}]]
    /\ response = None

MaxSortConfigs == 2   \* entries of searchTypeConfig.sort

\* the entries of a sort list: a field name, or an object with a field, with
\* or without the default flag and a sortFn
SortConfigs ==
    [kind : {"string"}, field : {"price", "name"}, default : {FALSE}, sortFn : {FALSE}]
        \cup [kind : {"object"}, field : {"price"}, default : BOOLEAN, sortFn : BOOLEAN]
        \cup [kind : {"object"}, field : {"name"}, default : BOOLEAN, sortFn : {FALSE}]

\* type configs with no sort list and with a list of up to MaxSortConfigs
\* entries; defaultSortOrder is this.searchConfig.defaultSortOrder
SortTypeConfigs ==
    {[sort |-> sort, defaultSortOrder |-> configured] :
        sort \in {Undefined}
                    \cup {Arr(seq) : seq \in UNION {[1..n -> SortConfigs] : n \in 0..MaxSortConfigs}},
        configured \in {"", "ASC"}}

\* input.sort: absent, or {field, order} with either left out
SortInputs ==
    {[sort |-> Undefined]}
        \cup {[sort |-> s] : s \in [t : {"sort"}, field : {"", "price", "rating"},
                                    order : {"", "ASC", "desc"}]}

\* sortPart and the sort of searchQuery
InitSortPart ==
    /\ api = "sortPart"
    /\ searchTypeConfig \in SortTypeConfigs
    /\ input \in SortInputs
    /\ response = None

MaxTokens == 5       \* tokens of one intent suggestion
MaxSuggestions == 2  \* intent suggestions of one list

\* the tokens of a suggestion: the i-th is token i, the first a unigram or a
\* bigram
IntentTokenLists ==
    UNION { {[i \in 1..n |-> [token |-> <<"t", i>>, score |-> 1,
                               match_token_type |-> IF i = 1 THEN first ELSE "Uni"]]
                : first \in {"Uni", "Bi"}}
            : n \in 0..MaxTokens }

IntentSuggestions == [intent_tokens : IntentTokenLists, score : {1, 2}]

\* buildIntentSuggestionListQuery on the suggestions of an intent response
InitIntentSuggestionListQuery ==
    /\ api = "buildIntentSuggestionListQuery"
    /\ searchTypeConfig = None
    /\ input \in [field : {"brand"},
                  intentSuggestionList :
                      UNION {[1..n -> IntentSuggestions] : n \in 0..MaxSuggestions}]
    /\ response = None

InitBuildTypeQuery ==
    /\ api = "buildTypeQuery"
    /\ searchTypeConfig \in [queryFields : QueryFieldLists]
    /\ input \in [text : {"", "x"}, fuzzySearch : BOOLEAN]
    /\ response = None

InitCompiler ==
    /\ pc = "new"
    /\ local = None
    /\ result = None
    /\ trace = << >>
    /\ \/ InitSearchQuery
       \/ InitSearchQueryAggs
       \/ InitSearchQueryDefaults
       \/ InitSortPart
       \/ InitIntentSuggestionListQuery
       \/ InitBuildTypeQuery

\* new SearcherInternal(config): enhanceType, _.defaultsDeep, enhanceSearchTypes
\* and buildApiSchema read no facet config, and validateSearchConfig is
\* commented out; the type configs are drawn as enhanceType leaves them
\* (type, index and filters.lang set), so the registry keeps them as they are
Construct ==
    /\ pc = "new"
    /\ pc' = "call"
    /\ UNCHANGED <<api, input, searchTypeConfig, response, local, result, trace>>

\* the single-type branch of _queryInternal: buildTypeQuery, then searchQuery
SearchQuery ==
    /\ pc = "call" /\ api = "searchQuery"
    /\ searchQueryThrown(searchTypeConfig).t = "none"
    /\ LET query == buildTypeQuery(searchTypeConfig, input.text, input.fuzzySearch)
       IN /\ result' = searchQuery(searchTypeConfig, input, query)
          /\ local' =
               [filterQueries |->
                    filterQueriesArray(searchTypeConfig.filters, searchTypeConfig.filterKeys, 1, input),
                facetQueries |-> facetQueriesArray(facetConfigsOf(searchTypeConfig), 1, input),
                filterPushed |-> [k \in {"brand", "price", "lang"} |->
                                    filterClauses(searchTypeConfig.filters[k], k, input)],
                facetPushed |-> [i \in 1..Len(facetConfigsOf(searchTypeConfig)) |->
                                    facetClauses(facetConfigsOf(searchTypeConfig)[i], input)]]
    /\ pc' = "done"
    /\ UNCHANGED <<api, input, searchTypeConfig, response, trace>>

\* searchQuery when facetsPart throws: the error reaches the caller of the
\* compile and no envelope is built
SearchQueryThrows ==
    /\ pc = "call" /\ api = "searchQuery"
    /\ searchQueryThrown(searchTypeConfig).t = "error"
    /\ result' = searchQueryThrown(searchTypeConfig)
    /\ local' = None
    /\ pc' = "thrown"
    /\ UNCHANGED <<api, input, searchTypeConfig, response, trace>>

BuildTypeQuery ==
    /\ pc = "call" /\ api = "buildTypeQuery"
    /\ result' = buildTypeQuery(searchTypeConfig, input.text, input.fuzzySearch)
    /\ local' = None
    /\ pc' = "done"
    /\ UNCHANGED <<api, input, searchTypeConfig, response, trace>>

\* searchQuery's sort: sortPart, then undefined for an empty result
SortPart ==
    /\ pc = "call" /\ api = "sortPart"
    /\ local' = [sortPart |-> sortPart(searchTypeConfig, input, searchTypeConfig.defaultSortOrder)]
    /\ result' = sortOf(sortPart(searchTypeConfig, input, searchTypeConfig.defaultSortOrder))
    /\ pc' = "done"
    /\ UNCHANGED <<api, input, searchTypeConfig, response, trace>>

\* buildIntentSuggestionListQuery(intentSuggestionList, field)
BuildIntentSuggestionListQuery ==
    /\ pc = "call" /\ api = "buildIntentSuggestionListQuery"
    /\ result' = buildIntentSuggestionListQuery(input.intentSuggestionList, input.field)
    /\ local' = None
    /\ pc' = IF buildIntentSuggestionListQuery(input.intentSuggestionList, input.field) = TypeError
             THEN "thrown" ELSE "done"
    /\ UNCHANGED <<api, input, searchTypeConfig, response, trace>>

NextCompiler ==
    \/ Construct
    \/ SearchQuery
    \/ SearchQueryThrows
    \/ BuildTypeQuery
    \/ SortPart
    \/ BuildIntentSuggestionListQuery

SpecCompiler == InitCompiler /\ [][NextCompiler]_vars

-----------------------------------------------------------------------------
(* Orchestration: the operations of Searcher, their gateway calls and      *)
(* their events.  A behaviour is one request: Invoke runs the synchronous  *)
(* part of the internal operation, every later action is one callback of   *)
(* its promise chains or one reply of the gateway.                         *)

\* new InternalServiceError('Internal Service Error', {details: error})
InternalServiceError(details) ==
    [t |-> "error", _errorCode |-> "INTERNAL_SERVICE_ERROR",
     code |-> "Internal Service Error", details |-> details]

\* the catch of errorWrap
errorWrap(error) ==
    IF error._errorCode \in {"VALIDATION_ERROR", "INTERNAL_SERVICE_ERROR"} THEN error
    ELSE InternalServiceError(error.code)

\* what a call of the gateway rejects with: an error of the client library or
\* an InternalServiceError of the gateway itself
GatewayErrors ==
    {[t |-> "error", _errorCode |-> "", code |-> "ES_ERROR"],
     [t |-> "error", _errorCode |-> "INTERNAL_SERVICE_ERROR", code |-> "ES_UNAVAILABLE"]}

\* the operations of Searcher
Operations ==
    {"get", "search", "formSearch", "browseAll", "autocomplete", "intent", "suggestedQueries",
     "explainAutocomplete", "explainSearch", "termVectors", "didYouMean", "view"}

\* the operations that go through _searchInternal or the section paths of search
SearchOperations == {"search", "formSearch", "browseAll", "autocomplete", "suggestedQueries"}

\* Constants.*_EVENT of the operation
eventNameOf(operation) ==
    CASE operation = "search" -> "SEARCH_EVENT"
      [] operation = "formSearch" -> "FORM_SEARCH_EVENT"
      [] operation = "browseAll" -> "BROWSE_ALL_EVENT"
      [] operation = "autocomplete" -> "AUTOCOMPLETE_EVENT"
      [] operation = "suggestedQueries" -> "SUGGESTED_QUERIES_EVENT"

\* this.instanceName === 'carDekho' || this.instanceName === 'carDekhoV2'
isCarDekho(registry) == registry.instanceName \in {"carDekho", "carDekhoV2"}

\* the set of the elements of a sequence
Elements(seq) == {seq[i] : i \in 1..Len(seq)}

\* searchTypeConfigs[key] is defined
hasType(registry, key) == key \in Elements(registry.typeKeys)

\* _(searchTypeConfigs).filter((value, key) => !_.isArray(input.type) ||
\* _.some(input.type, val => val === key)): the keys kept, in config order
selectedKeys(registry, type) ==
    SelectSeq(registry.typeKeys, LAMBDA key : type.t # "array" \/ key \in Elements(type.v))

\* variant: the types are attributed in the order the request lists them
typeOrTypesArrayAsListed(registry, type) ==
    IF type.t = "array"
    THEN SelectSeq(type.v, LAMBDA key : hasType(registry, key))
    ELSE selectedKeys(registry, type)

\* typeOrTypesArray of the multi-type branch: indexType.type of every kept
\* type config, in config order
typeOrTypesArrayOf(registry, type) ==
    [i \in 1..Len(selectedKeys(registry, type)) |->
        registry.types[selectedKeys(registry, type)[i]].indexType.type]

\* !input.type || input.type === '*' || _.isArray(input.type)
isMultiType(type) == ~Truthy(type) \/ IsStr(type, "*") \/ type.t = "array"

\* new ValidationError(message, {details: {code: 'SEARCH_CONFIG_NOT_FOUND',
\* type: input.type}})
searchConfigNotFound(type) ==
    [t |-> "error", _errorCode |-> "VALIDATION_ERROR", code |-> "SEARCH_CONFIG_NOT_FOUND",
     type |-> type]

\* variant: the error names no type
queryInternalThrownUntyped(registry, in) ==
    IF isMultiType(in.type) \/ hasType(registry, in.type.v) THEN None
    ELSE searchConfigNotFound(Undefined)

\* what _queryInternal throws before it returns its promise
queryInternalThrown(registry, in) ==
    IF isMultiType(in.type) \/ hasType(registry, in.type.v) THEN None
    ELSE searchConfigNotFound(in.type)

\* _.toLower(this.instanceName)
toLower(instanceName) == IF instanceName = "carDekho" THEN "cardekho" ELSE instanceName

\* _searchQueryInternal(index, query, page, size) as the flat branch calls it:
\* type, sort, post_filter, aggs and queryLanguages are undefined
searchQueryInternal(index, query, page, size) ==
    [index |-> index, type |-> Undefined,
     from |-> (IF Truthy(page) THEN page.v ELSE 0) * size, size |-> size,
     sort |-> Undefined,
     query |-> [q |-> "function_score", query |-> query,
                field_value_factor |-> [field |-> "_weight", factor |-> 2, missing |-> 1]],
     post_filter |-> Undefined, aggs |-> Undefined]

\* the query of one type of the flat branch: bool.must of the query of
\* buildTypeQuery and of the term on _type; input.fuzzySearch is not set
flatTypeQuery(typeConfig, text) ==
    [q |-> "bool",
     must |-> <<buildTypeQuery(typeConfig, text, FALSE),
                [q |-> "term", field |-> "_type", value |-> typeConfig.indexType.type]>>]

\* variant: the size is the count of the request, 0 when it has none
flatSizeOfCount(count) == IF count.t = "number" THEN count.v ELSE 0

\* input.count || 10
flatSize(count) == IF Truthy(count) THEN count.v ELSE 10

\* the flat branch of _queryInternal: the queryOrArray its promise resolves
\* with, the queries in the order of the type configs
flatQuery(registry, in) ==
    searchQueryInternal(
        <<toLower(registry.instanceName), "_store">>,
        [q |-> "bool",
         should |-> [i \in 1..Len(selectedKeys(registry, in.type)) |->
                        flatTypeQuery(registry.types[selectedKeys(registry, in.type)[i]], in.text)]],
        in.page, flatSize(in.count))

\* the promise chain of one _searchInternal call, before its first callback:
\* the queries still to compile (todo), the types the queries are for (keys)
\* and the types the responses are attributed to (typeOrTypesArray)
searchInternalChain(registry, in, eventName) ==
    IF isMultiType(in.type)
    THEN [kind |-> "_searchInternal", eventName |-> eventName,
          multiSearch |-> ~in.flat, flat |-> in.flat,
          keys |-> selectedKeys(registry, in.type),
          typeOrTypesArray |-> typeOrTypesArrayOf(registry, in.type),
          todo |-> 1..Len(selectedKeys(registry, in.type)),
          input |-> in, queryOrArray |-> None,
          stage |-> "compile", error |-> None, reply |-> None]
    ELSE [kind |-> "_searchInternal", eventName |-> eventName,
          multiSearch |-> FALSE, flat |-> FALSE,
          keys |-> <<in.type.v>>,
          typeOrTypesArray |-> <<registry.types[in.type.v].indexType.type>>,
          todo |-> {1},
          input |-> in, queryOrArray |-> None,
          stage |-> "compile", error |-> None, reply |-> None]

\* the promise chain of one _multiSearch call: esClient.multiSearch is called
\* before _multiSearch returns, and no event is emitted
multiSearchChain(queries) ==
    [kind |-> "_multiSearch", eventName |-> "", multiSearch |-> TRUE, flat |-> FALSE,
     keys |-> queries, typeOrTypesArray |-> queries, todo |-> {},
     input |-> None, queryOrArray |-> None,
     stage |-> "waiting", error |-> None, reply |-> None]

\* the promise chain of one call of esClient.get, termVectors, intent, explain
\* or allPages
gatewayChain(method, stage) ==
    [kind |-> method, eventName |-> "", multiSearch |-> FALSE, flat |-> FALSE,
     keys |-> << >>, typeOrTypesArray |-> << >>, todo |-> {},
     input |-> None, queryOrArray |-> None,
     stage |-> stage, error |-> None, reply |-> None]

\* the method of the gateway the chain calls
methodOf(chain) ==
    IF chain.kind \in {"_searchInternal", "_multiSearch"}
    THEN (IF chain.multiSearch THEN "multiSearch" ELSE "search")
    ELSE chain.kind

\* an entry of the trace
Event(e, chain, name, types) == [e |-> e, chain |-> chain, name |-> name, types |-> types]

\* the typeDecipherQueries of carDekhoIntentBasedSearch
typeDecipherQueries == <<"brand", "model", "variant">>

\* the queries of searchWithoutIntent
withoutIntentQueries == <<"new_car", "used_car", "car_news">>

\* the queries of the second batch of carDekhoIntentBasedSearch
composeQueries(searchType) ==
    IF searchType = "model-single"
    THEN <<"new_car", "used_car", "car_news", "new_car_dealer">>
    ELSE <<"used_car", "car_news", "new_car_dealer">>

\* variant: whatever the intent call returns is taken as a suggestion
recognizedAlways(intentResponse) == TRUE

\* search: !_.isEmpty(response.results) and the first result has car_name
\* suggestions
recognized(intentResponse) == intentResponse.results > 0 /\ intentResponse.suggestions

\* what the gateway can reply to an intent call and to a batch of probes
IntentReplies == [results : {0, 1}, suggestions : BOOLEAN]
ProbeReplies == [brandHits : {0, 1, 2}, modelHits : {0, 1, 2}, variantHits : {0, 1, 2}]

\* the registry has a type config under the type of the request
knownType(registry, type) == type.t = "string" /\ hasType(registry, type.v)

\* validateInput: the ValidationError of a request that does not conform to
\* the schema of the operation
validateInputThrown(in) ==
    IF in.conforms THEN None ELSE ValidationError("NON_CONFORMING_FORMAT")

\* _.defaults({type: section}, input)
sectionInput(in, type, flat) == [in EXCEPT !.type = type, !.flat = flat]

\* the input of the section searches of search; the dealers, news and used
\* cars sections are a single type, the new cars section is flat over two
carDekhoSectionInput(in) ==
    IF in.section = "new_car"
    THEN sectionInput(in, Arr(<<"new_car_model", "new_car_variant">>), TRUE)
    ELSE sectionInput(in, Str(in.section), FALSE)

carDekhoSections == {"new_car_dealer", "car_news", "used_car", "new_car"}

\* the branch search takes
searchPath(registry, in) ==
    IF isCarDekho(registry) /\ in.section \in carDekhoSections THEN "section"
    ELSE IF isCarDekho(registry) /\ (~Truthy(in.type) \/ IsStr(in.type, "*")) THEN "cascade"
    ELSE IF registry.instanceName = "netmeds" /\ in.section \in {"", "*"} THEN "composite"
    ELSE "single"

\* what the internal operation throws before it returns its promise; None
\* when it returns one
internalThrown(operation, registry, in) ==
    CASE operation \in {"formSearch", "browseAll", "autocomplete", "suggestedQueries"} ->
            IF ~in.conforms THEN validateInputThrown(in)
            ELSE queryInternalThrown(registry, in)
      [] operation = "search" ->
            IF ~in.conforms THEN validateInputThrown(in)
            ELSE IF searchPath(registry, in) = "section"
            THEN queryInternalThrown(registry, carDekhoSectionInput(in))
            ELSE IF searchPath(registry, in) = "cascade" THEN None
            ELSE queryInternalThrown(registry, in)
      [] operation = "get" ->
            IF in.id = "" THEN ValidationError("UNDEFINED_ID")
            ELSE IF ~Truthy(in.type) THEN ValidationError("UNDEFINED_TYPE")
            ELSE IF ~knownType(registry, in.type) THEN ValidationError("INDEX_TYPE_NOT_FOUND")
            ELSE None
      [] operation = "termVectors" ->
            IF ~in.conforms THEN validateInputThrown(in)
            ELSE IF ~knownType(registry, in.type) THEN ValidationError("INDEX_TYPE_NOT_FOUND")
            ELSE None
      [] operation = "intent" ->
            IF ~Truthy(in.type) \/ IsStr(in.type, "*") THEN None
            ELSE IF ~knownType(registry, in.type) THEN searchConfigNotFound(in.type)
            ELSE None
      [] operation \in {"explainAutocomplete", "explainSearch"} ->
            IF ~in.conforms THEN validateInputThrown(in)
            ELSE IF ~knownType(registry, in.type) THEN TypeError
            ELSE searchQueryThrown(registry.types[in.type.v])
      [] operation = "view" ->
            IF ~knownType(registry, in.type) THEN TypeError ELSE None
      [] operation = "didYouMean" -> None

\* the promise chains the internal operation has started when it returns
startedChains(operation, registry, in) ==
    CASE operation \in {"formSearch", "browseAll", "autocomplete", "suggestedQueries"} ->
            <<searchInternalChain(registry, in, eventNameOf(operation))>>
      [] operation = "search" ->
            IF searchPath(registry, in) = "section"
            THEN <<searchInternalChain(registry, carDekhoSectionInput(in), "SEARCH_EVENT")>>
            ELSE IF searchPath(registry, in) = "cascade"
            THEN <<gatewayChain("intent", "waiting")>>
            ELSE IF searchPath(registry, in) = "composite"
            THEN <<searchInternalChain(registry, in, "SEARCH_EVENT"),
                   searchInternalChain(registry, in, "SEARCH_EVENT")>>
            ELSE <<searchInternalChain(registry, in, "SEARCH_EVENT")>>
      [] operation = "get" -> <<gatewayChain("get", "waiting")>>
      [] operation = "termVectors" -> <<gatewayChain("termVectors", "waiting")>>
      [] operation = "intent" -> <<gatewayChain("intent", "waiting")>>
      [] operation \in {"explainAutocomplete", "explainSearch"} ->
            <<gatewayChain("explain", "compile")>>
      [] operation = "view" -> <<gatewayChain("allPages", "waiting")>>
      [] operation = "didYouMean" -> << >>

\* the path of the request through the internal operation
pathOf(operation, registry, in) ==
    IF operation = "search" THEN searchPath(registry, in)
    ELSE IF operation = "didYouMean" THEN "null"
    ELSE "single"

\* the gateway calls made before the internal operation returns
startedCalls(chains) ==
    IF Len(chains) = 1 /\ chains[1].stage = "waiting"
    THEN <<Event("esCall", 1, methodOf(chains[1]), chains[1].keys)>>
    ELSE << >>

\* the response processor of the chain
processorOf(chain) ==
    CASE chain.kind = "_searchInternal" /\ chain.multiSearch -> "processMultipleSearchResponse"
      [] chain.kind = "_searchInternal" /\ ~chain.multiSearch /\ chain.flat ->
            "processFlatSearchResponse"
      [] chain.kind = "_searchInternal" /\ ~chain.multiSearch /\ ~chain.flat ->
            "processSingleSearchResponse"
      [] chain.kind = "_multiSearch" -> "processMultipleSearchResponseAsArray"
      [] OTHER -> chain.kind

\* the batch the cascade sends next: the probes when a suggestion was
\* recognized, the queries of searchWithoutIntent when none was or when the
\* probes found nothing, else the queries of the search type
nextPhase(phase, reply) ==
    IF phase = "intent" THEN (IF recognized(reply) THEN "probe" ELSE "fallback")
    ELSE IF searchTypeOf(reply.brandHits, reply.modelHits, reply.variantHits) = "fallback"
    THEN "fallback"
    ELSE "compose"

nextQueries(phase, reply) ==
    CASE nextPhase(phase, reply) = "probe" -> typeDecipherQueries
      [] nextPhase(phase, reply) = "fallback" -> withoutIntentQueries
      [] nextPhase(phase, reply) = "compose" ->
            composeQueries(searchTypeOf(reply.brandHits, reply.modelHits, reply.variantHits))

-----------------------------------------------------------------------------
(* Inputs of the orchestration *)

\* a type config of the registry: its one facet config complete, or without
\* a type
RegistryTypeConfig(key, complete) ==
    [indexType |-> [type |-> key],
     queryFields |-> <<[field |-> <<"f", key>>, weight |-> 2, vernacularOnly |-> FALSE,
                        nestedPath |-> "", noFuzzy |-> FALSE, filter |-> FALSE]>>,
     facets |-> Arr(<<[key |-> "brand", type |-> IF complete THEN "field" ELSE "",
                       field |-> "brand", includeMissing |-> FALSE, nestedPath |-> "",
                       filters |-> Undefined, ranges |-> Undefined]>>),
     summaries |-> Undefined]

typeKeysOf(instanceName) ==
    IF instanceName = "carDekho"
    THEN <<"new_car_model", "new_car_variant", "used_car", "car_news">>
    ELSE <<"product", "brand">>

\* the registries: of carDekho, of netmeds and of another instance, with
\* every facet config complete or with one type whose facet config is not
Registries ==
    { [instanceName |-> instanceName, typeKeys |-> typeKeysOf(instanceName),
       types |-> [key \in Elements(typeKeysOf(instanceName)) |->
                    RegistryTypeConfig(key, key # incomplete)]]
      : instanceName \in {"carDekho", "netmeds", "other"},
        incomplete \in {"", "used_car", "product"} }

\* the types a request names: none, '*', a type of the registry, an unknown
\* type, and lists in another order than the registry's
RequestTypes(registry) ==
    {Undefined, Str("*"), Str(registry.typeKeys[1]), Str("bogus"),
     Arr(<<registry.typeKeys[2], registry.typeKeys[1]>>), Arr(<<registry.typeKeys[2]>>)}

RequestSections(operation, registry) ==
    IF operation # "search" THEN {""}
    ELSE IF isCarDekho(registry) THEN {"", "used_car", "new_car", "new_car_dealer"}
    ELSE IF registry.instanceName = "netmeds" THEN {"", "prescription"}
    ELSE {""}

\* the requests of an operation; flat stands for searchApiConfig.flat ||
\* input.flat.  The text, the page and the count vary on the flat requests.
Requests(operation, registry) ==
    {in \in [conforms : BOOLEAN, type : RequestTypes(registry),
             section : RequestSections(operation, registry),
             flat : IF operation \in SearchOperations THEN BOOLEAN ELSE {FALSE},
             id : IF operation = "get" THEN {"", "1"} ELSE {"1"},
             text : {"", "x"},
             page : {Num(p) : p \in 0..MaxPage},
             count : {Undefined, Num(0), Num(MaxHits)}] :
        \/ in.flat /\ in.conforms
        \/ in.text = "x" /\ in.page = Num(0) /\ in.count = Num(MaxHits)}

-----------------------------------------------------------------------------
(* The request *)

InitOrchestrator ==
    /\ pc = "call"
    /\ api \in Operations
    /\ searchTypeConfig \in Registries
    /\ input \in Requests(api, searchTypeConfig)
    /\ response = None
    /\ local = None
    /\ result = None
    /\ trace = << >>

\* Searcher.<operation>(headers, request): the internal operation runs first,
\* as the argument of errorWrap; what it throws reaches the caller as it is
Invoke ==
    /\ pc = "call"
    /\ LET thrown == internalThrown(api, searchTypeConfig, input)
           chains == startedChains(api, searchTypeConfig, input)
       IN IF thrown.t = "error"
          THEN /\ pc' = "thrown"
               /\ result' = thrown
               /\ local' = [path |-> "thrown", phase |-> "", chains |-> << >>, cause |-> thrown]
               /\ trace' = <<Event("throw", 0, "", << >>)>>
          ELSE /\ pc' = "pending"
               /\ result' = None
               /\ local' = [path |-> pathOf(api, searchTypeConfig, input),
                            phase |-> IF pathOf(api, searchTypeConfig, input) = "cascade"
                                      THEN "intent" ELSE "",
                            chains |-> chains, cause |-> None]
               /\ trace' = startedCalls(chains)
    /\ UNCHANGED <<api, input, searchTypeConfig, response>>

\* the request has promise chains
Started == pc \in {"pending", "done", "rejected"}

ChainIds == IF Started THEN 1..Len(local.chains) ELSE {}

\* the cascade has a batch to send: the intent call or the probes returned
CanCascade ==
    /\ pc = "pending" /\ local.path = "cascade" /\ local.phase \in {"intent", "probe"}
    /\ local.chains[Len(local.chains)].stage = "resolved"

\* the promise of the internal operation is settled
CanSettle ==
    /\ pc = "pending"
    /\ \/ \E c \in ChainIds : local.chains[c].stage = "rejected"
       \/ /\ \A c \in ChainIds : local.chains[c].stage = "resolved"
          /\ local.path = "cascade" => local.phase \in {"compose", "fallback"}

\* a callback is due; the replies of the gateway are delivered when none is
Runnable ==
    \/ \E c \in ChainIds : local.chains[c].stage \in {"compile", "replied", "processed"}
    \/ CanCascade
    \/ CanSettle

\* the .then of one query of _queryInternal: searchQuery of a type (the flat
\* branch wraps the type query and calls no searchQuery); a throw rejects the
\* chain.  The callbacks of the types are taken in any order.
Compile(c, i) ==
    /\ Started /\ c \in ChainIds
    /\ local.chains[c].stage = "compile" /\ i \in local.chains[c].todo
    /\ LET chain == local.chains[c]
           key == chain.keys[i]
           thrown == IF chain.flat THEN None
                     ELSE searchQueryThrown(searchTypeConfig.types[key])
       IN IF thrown.t = "error"
          THEN /\ local' = [local EXCEPT !.chains[c].stage = "rejected",
                                         !.chains[c].error = thrown]
               /\ trace' = Append(trace, Event("compile", c, "thrown", <<key>>))
          ELSE /\ local' = [local EXCEPT !.chains[c].todo = chain.todo \ {i}]
               /\ trace' = Append(trace, Event("compile", c, "", <<key>>))
    /\ UNCHANGED <<pc, api, input, searchTypeConfig, response, result>>

\* the first .then of _searchInternal (and of _explain): the call of the
\* gateway, once Promise.all of the queries has resolved
EsCall(c) ==
    /\ Started /\ c \in ChainIds
    /\ local.chains[c].stage = "compile" /\ local.chains[c].todo = {}
    /\ local' = [local EXCEPT
                    !.chains[c].stage = "waiting",
                    !.chains[c].queryOrArray =
                        IF local.chains[c].flat
                        THEN flatQuery(searchTypeConfig, local.chains[c].input)
                        ELSE None]
    /\ trace' = Append(trace, Event("esCall", c, methodOf(local.chains[c]), local.chains[c].keys))
    /\ UNCHANGED <<pc, api, input, searchTypeConfig, response, result>>

\* the replies the gateway can give the chain
Replies(c) ==
    IF local.chains[c].kind = "intent" THEN IntentReplies
    ELSE IF local.chains[c].kind = "_multiSearch" /\ local.phase = "probe" THEN ProbeReplies
    ELSE {[t |-> "response"]}

\* the gateway replies to a call, or the call fails
EsReply(c) ==
    /\ Started /\ c \in ChainIds /\ ~Runnable
    /\ local.chains[c].stage = "waiting"
    /\ \/ \E reply \in Replies(c) :
            /\ local' = [local EXCEPT !.chains[c].stage = "replied", !.chains[c].reply = reply]
            /\ trace' = Append(trace, Event("reply", c, "ok", << >>))
       \/ \E error \in GatewayErrors :
            /\ local' = [local EXCEPT !.chains[c].stage = "rejected", !.chains[c].error = error]
            /\ trace' = Append(trace, Event("reply", c, "error", << >>))
    /\ UNCHANGED <<pc, api, input, searchTypeConfig, response, result>>

\* the .then that processes the response of the gateway
Process(c) ==
    /\ Started /\ c \in ChainIds
    /\ local.chains[c].stage = "replied"
    /\ local' = [local EXCEPT !.chains[c].stage =
                    IF local.chains[c].kind = "_searchInternal" THEN "processed" ELSE "resolved"]
    /\ trace' = Append(trace, Event("process", c, processorOf(local.chains[c]),
                                    local.chains[c].typeOrTypesArray))
    /\ UNCHANGED <<pc, api, input, searchTypeConfig, response, result>>

\* the last .then of _searchInternal: eventEmitter.emit, then the response
Emit(c) ==
    /\ Started /\ c \in ChainIds
    /\ local.chains[c].stage = "processed"
    /\ local' = [local EXCEPT !.chains[c].stage = "resolved"]
    /\ trace' = Append(trace, Event("emit", c, local.chains[c].eventName, << >>))
    /\ UNCHANGED <<pc, api, input, searchTypeConfig, response, result>>

\* the .then of search after _intentInternal and the .then of
\* carDekhoIntentBasedSearch after the probes: the next _multiSearch
CascadeStep ==
    /\ CanCascade
    /\ LET reply == local.chains[Len(local.chains)].reply
       IN /\ local' = [local EXCEPT
                         !.phase = nextPhase(local.phase, reply),
                         !.chains = Append(local.chains,
                                           multiSearchChain(nextQueries(local.phase, reply)))]
          /\ trace' = Append(trace, Event("esCall", Len(local.chains) + 1, "multiSearch",
                                          nextQueries(local.phase, reply)))
    /\ UNCHANGED <<pc, api, input, searchTypeConfig, response, result>>

\* what the operation resolves with
returnedOf(path) ==
    [t |-> "returned",
     value |-> IF path \in {"cascade", "composite"} THEN "sections"
               ELSE IF path = "null" THEN "null" ELSE "response"]

\* the promise of the internal operation settles (composeSections is
\* Promise.all of the sections): errorWrap passes a value on and catches a
\* rejection
Settle ==
    /\ CanSettle
    /\ IF \E c \in ChainIds : local.chains[c].stage = "rejected"
       THEN \E c \in ChainIds :
               /\ local.chains[c].stage = "rejected"
               /\ pc' = "rejected"
               /\ result' = errorWrap(local.chains[c].error)
               /\ local' = [local EXCEPT !.cause = local.chains[c].error]
               /\ trace' = Append(trace, Event("throw", c, "", << >>))
       ELSE /\ pc' = "done"
            /\ result' = returnedOf(local.path)
            /\ local' = local
            /\ trace' = Append(trace, Event("return", 0, "", << >>))
    /\ UNCHANGED <<api, input, searchTypeConfig, response>>

NextOrchestrator ==
    \/ Invoke
    \/ \E c \in ChainIds : \E i \in local.chains[c].todo : Compile(c, i)
    \/ \E c \in ChainIds : EsCall(c)
    \/ \E c \in ChainIds : EsReply(c)
    \/ \E c \in ChainIds : Process(c)
    \/ \E c \in ChainIds : Emit(c)
    \/ CascadeStep
    \/ Settle

SpecOrchestrator == InitOrchestrator /\ [][NextOrchestrator]_vars

-----------------------------------------------------------------------------
(* The registry over requests: the type config the searcher holds while it  *)
(* serves requests one after the other and interleaved.  A request is       *)
(* accepted by the synchronous part of its operation and its query is       *)
(* compiled by a callback, those of the requests in flight in any order.    *)

MaxRequests == 2   \* requests accepted by one searcher

\* _.extend(destination, source): the destination after the call
extend(destination, source) ==
    [k \in DOMAIN destination \cup DOMAIN source |->
        IF k \in DOMAIN source THEN source[k] ELSE destination[k]]

\* variant: filterQueries extends the lang filter config itself,
\* _.extend(filterConfigs.lang, {filter: true})
filtersWrittenInPlace(filterConfigs, in) ==
    IF Truthy(in.lang)
    THEN [filterConfigs EXCEPT !["lang"] = extend(@, [filter |-> TRUE])]
    ELSE filterConfigs

\* the filter configs after filterQueries: the destination of its _.defaults
\* and of its _.extend is a new object, the filter config is the source, and
\* nothing else is assigned
filtersWritten(filterConfigs, in) == filterConfigs

\* the query of view: sortPart and filterQueries
viewQuery(viewConfig, in) ==
    [sort |-> sortPart(viewConfig, in, viewConfig.defaultSortOrder),
     query |-> [filter |-> collapse(filterQueriesArray(viewConfig.filters,
                                                       viewConfig.filterKeys, 1, in))]]

\* the query an operation compiles for a request over a type config
compiledQuery(typeConfig, request) ==
    IF request.operation = "view" THEN viewQuery(typeConfig, request.in)
    ELSE searchQuery(typeConfig, request.in,
                     buildTypeQuery(typeConfig, request.in.text, request.in.fuzzySearch))

\* the type configs of the registry: those of the default values, with a sort
\* list
RegistryConfigs ==
    { extend(typeConfig,
             [sort |-> Arr(<<[kind |-> "object", field |-> "price", default |-> TRUE,
                              sortFn |-> FALSE]>>),
              defaultSortOrder |-> ""])
      : typeConfig \in DefaultValueTypeConfigs }

RegistryRequests ==
    [operation : {"search", "autocomplete", "view"},
     in : [page : {1}, count : {10}, text : {"x"}, fuzzySearch : {TRUE},
           lang : {Undefined, Str("en")}, sort : {Undefined},
           filter : {[k \in {"brand", "price"} |-> Undefined],
                     [k \in {"brand", "price"} |->
                        IF k = "brand" THEN Str("a") ELSE Undefined]}]]

\* the searcher after construction: constructed keeps the type config as the
\* constructor left it
InitRegistry ==
    /\ pc = "serving"
    /\ api = "requests"
    /\ searchTypeConfig \in RegistryConfigs
    /\ local = [constructed |-> searchTypeConfig, inFlight |-> << >>, served |-> << >>]
    /\ input = None
    /\ response = None
    /\ result = None
    /\ trace = << >>

\* the synchronous part of an operation: buildTypeQuery, and for view the
\* whole query; the callback that compiles is queued
Accept ==
    /\ pc = "serving"
    /\ Len(local.inFlight) + Len(local.served) < MaxRequests
    /\ \E request \in RegistryRequests :
          local' = [local EXCEPT !.inFlight = Append(@, request)]
    /\ UNCHANGED <<pc, api, input, searchTypeConfig, response, result, trace>>

\* the callback of a request in flight: searchQuery, or the query of view,
\* over the type config as it is now
CompileQuery(i) ==
    /\ pc = "serving"
    /\ i \in 1..Len(local.inFlight)
    /\ LET request == local.inFlight[i]
       IN /\ result' = compiledQuery(searchTypeConfig, request)
          /\ input' = request
          /\ searchTypeConfig' =
                [searchTypeConfig EXCEPT !.filters = filtersWritten(@, request.in)]
          /\ local' = [local EXCEPT
                         !.inFlight = SubSeq(@, 1, i - 1) \o SubSeq(@, i + 1, Len(@)),
                         !.served = Append(@, request)]
    /\ UNCHANGED <<pc, api, response, trace>>

NextRegistry ==
    \/ Accept
    \/ \E i \in 1..MaxRequests : CompileQuery(i)

SpecRegistry == InitRegistry /\ [][NextRegistry]_vars

-----------------------------------------------------------------------------
(* Claims *)

Done(a) == pc = "done" /\ api = a

ScoresOf(hits) == [i \in 1..Len(hits) |-> hits[i]._score]
IdsOf(hits) == {hits[i]._id : i \in 1..Len(hits)}

\* score / reference > 0.40, with JavaScript's x / 0
RatioOver40(score, reference) ==
    \/ reference > 0 /\ 5 * score > 2 * reference
    \/ reference = 0 /\ score > 0

\* the last position before i whose hit was kept
LastKeptBefore(kept, i) == CHOOSE k \in kept : k < i /\ \A j \in kept : j < i => j <= k

\* C1: _processResponse keeps the first hit, keeps each later hit iff its score
\* over the score of the most recently kept hit is > 0.40, compares a hit after a
\* dropped one with the last kept hit, returns the kept hits in backend order,
\* and keeps [100, 90] of the scores [100, 90, 30, 28].
C1_CliffFilter ==
    Done("_processResponse") =>
        LET hits == response.hits.hits
            kept == IdsOf(result.results)
        IN /\ result.results
                = SelectSeq([i \in 1..Len(hits) |-> _processSource(hits[i])],
                            LAMBDA h : h._id \in kept)
           /\ Len(hits) >= 1 => 1 \in kept
           /\ \A i \in 2..Len(hits) :
                i \in kept <=> RatioOver40(hits[i]._score, hits[LastKeptBefore(kept, i)]._score)
           /\ ScoresOf(hits) = <<100, 90, 30, 28>> => ScoresOf(result.results) = <<100, 90>>

C1_Witness ==
    /\ Done("_processResponse")
    /\ ScoresOf(response.hits.hits) = <<100, 90, 30, 28>>
    /\ ScoresOf(result.results) = <<100, 90>>

RelEq(a, b) == a.n * b.d = b.n * a.d

IsDescending(scores) == \A i \in 1..(Len(scores) - 1) : ~RelLess(scores[i], scores[i + 1])

\* the relevancy scores of the hits are those of the list, each as often
SameScores(hits, scores) ==
    /\ Len(hits) = Len(scores)
    /\ \A r \in {_relevancyScore(hits[i]) : i \in 1..Len(hits)} :
          Cardinality({i \in 1..Len(hits) : RelEq(_relevancyScore(hits[i]), r)})
            = Cardinality({i \in 1..Len(scores) : RelEq(scores[i], r)})

\* the positions of the sorted list whose score is at most / under half of the one before
AtMostHalfAt(scores) ==
    {i \in 2..Len(scores) : 2 * scores[i].n * scores[i - 1].d <= scores[i - 1].n * scores[i].d}
UnderHalfAt(scores) ==
    {i \in 2..Len(scores) :
        scores[i - 1].n # 0 /\ 2 * scores[i].n * scores[i - 1].d < scores[i - 1].n * scores[i].d}

FirstOf(S) == CHOOSE i \in S : \A j \in S : i <= j

\* the score before the first of the positions S, 0 when there is none
ThresholdAt(scores, S) == IF S = {} THEN Rel(0, 1) ELSE scores[FirstOf(S) - 1]

\* C2 as stated: the deflection threshold is the score before the first score
\* that is <= 50% of its predecessor, so a score of exactly half triggers.
C2_Original ==
    Done("suggestedQueries") =>
        RelEq(local.deflectionScore,
              ThresholdAt(local.relevancyScores, AtMostHalfAt(local.relevancyScores)))

\* C2 amended: the relevancy scores are _score / (_weight or 1) sorted in
\* descending order, and the deflection threshold is the score before the first
\* score that is strictly under 50% of its (non-zero) predecessor; a score of
\* exactly half does not trigger; no trigger leaves the threshold at 0.
C2_Deflection ==
    Done("suggestedQueries") =>
        /\ SameScores(GroupHits(local.merged.results), local.relevancyScores)
        /\ IsDescending(local.relevancyScores)
        /\ RelEq(local.deflectionScore,
                 ThresholdAt(local.relevancyScores, UnderHalfAt(local.relevancyScores)))

\* the scores 10, 5: 5 is exactly half of 10 and no deflection point is found
C2_Witness ==
    /\ Done("suggestedQueries")
    /\ Len(local.relevancyScores) = 2
    /\ RelEq(local.relevancyScores[1], Rel(10, 1))
    /\ RelEq(local.relevancyScores[2], Rel(5, 1))
    /\ local.deflectionScore.n = 0

\* C3: suggestedQueries returns exactly the hits of all groups whose relevancy
\* score is >= the deflection threshold, every hit when there is no deflection
\* point, in descending order of _score; of the relevancy scores [10, 4, 3]
\* only the hit of score 10 is returned.
C3_KeptFromDeflection ==
    Done("suggestedQueries") =>
        LET hits == GroupHits(local.merged.results)
            kept == {i \in 1..Len(hits) : RelGeq(_relevancyScore(hits[i]), local.deflectionScore)}
        IN /\ Len(result.results) = Cardinality(kept)
           /\ {result.results[j] : j \in 1..Len(result.results)} = {hits[i] : i \in kept}
           /\ local.deflectionScore.n = 0 => Len(result.results) = Len(hits)
           /\ \A j \in 1..(Len(result.results) - 1) :
                result.results[j]._score >= result.results[j + 1]._score
           /\ (/\ Len(local.relevancyScores) = 3
               /\ RelEq(local.relevancyScores[1], Rel(10, 1))
               /\ RelEq(local.relevancyScores[2], Rel(4, 1))
               /\ RelEq(local.relevancyScores[3], Rel(3, 1)))
              => /\ Len(result.results) = 1
                 /\ RelEq(_relevancyScore(result.results[1]), Rel(10, 1))

C3_Witness ==
    /\ Done("suggestedQueries")
    /\ Len(local.relevancyScores) = 3
    /\ RelEq(local.relevancyScores[1], Rel(10, 1))
    /\ RelEq(local.relevancyScores[2], Rel(4, 1))
    /\ RelEq(local.relevancyScores[3], Rel(3, 1))
    /\ Len(result.results) = 1
    /\ result.results[1]._score = 10

RECURSIVE SumOfLens(_)
SumOfLens(groups) ==
    IF groups = << >> THEN 0 ELSE Len(Head(groups).results) + SumOfLens(Tail(groups))

PaginationOf(resultCount) ==
    /\ result.nextPage.present <=> input.page * input.count + resultCount < result.totalResults
    /\ result.prevPage.present <=> input.page > 0
    /\ result.nextPage.present => result.nextPage.page = input.page + 1
    /\ result.prevPage.present => result.prevPage.page = input.page - 1

\* C4: in the response of _processResponse and in the merged response of
\* processMultipleSearchResponse, nextPage is present iff page * count + the
\* number of hits returned < the response's totalResults, prevPage is present
\* iff page > 0, and they carry page + 1 and page - 1.
C4_Pagination ==
    /\ Done("_processResponse") =>
          /\ result.totalResults = response.hits.total
          /\ PaginationOf(Len(result.results))
    /\ Done("search") => PaginationOf(SumOfLens(result.results))

C4_Witness ==
    /\ Done("search")
    /\ input.page > 0
    /\ SumOfLens(result.results) > 0
    /\ result.nextPage.present
    /\ result.prevPage.present

SearchTypes ==
    {"fallback", "brand-single", "brand-multi", "model-single", "model-multi",
     "variant-single", "variant-multi"}

\* the probe total of the level a state names
DecidingHits(searchType) ==
    CASE searchType \in {"brand-single", "brand-multi"} -> response.responses[1].hits.total
      [] searchType \in {"model-single", "model-multi"} -> response.responses[2].hits.total
      [] searchType \in {"variant-single", "variant-multi"} -> response.responses[3].hits.total

\* C5: the classification yields exactly one of the seven states for every
\* combination of probe totals; fallback iff all three totals are 0, a single
\* state iff the level it names has exactly 1 hit, a multi state iff it has
\* more than 1.
C5_Classification ==
    Done("carDekhoIntentBasedSearch") =>
        /\ local.searchType \in SearchTypes
        /\ local.searchType = "fallback"
              <=> \A i \in 1..3 : response.responses[i].hits.total = 0
        /\ local.searchType # "fallback" =>
              /\ local.searchType \in {"brand-single", "model-single", "variant-single"}
                    <=> DecidingHits(local.searchType) = 1
              /\ local.searchType \in {"brand-multi", "model-multi", "variant-multi"}
                    <=> DecidingHits(local.searchType) > 1

C5_Witness ==
    /\ Done("carDekhoIntentBasedSearch")
    /\ response.responses[1].hits.total = 0
    /\ response.responses[2].hits.total = 2
    /\ local.searchType = "model-multi"

Level(searchType) ==
    CASE searchType \in {"brand-single", "brand-multi"} -> 1
      [] searchType \in {"model-single", "model-multi"} -> 2
      [] searchType \in {"variant-single", "variant-multi"} -> 3

\* C6 as stated: the deciding level is the most specific level with hits
\* (variant before model before brand).
C6_Original ==
    (Done("carDekhoIntentBasedSearch") /\ local.searchType # "fallback") =>
        /\ response.responses[Level(local.searchType)].hits.total > 0
        /\ \A i \in 1..3 : i > Level(local.searchType) => response.responses[i].hits.total = 0

\* C6 amended: the deciding level is the coarsest level with hits (brand before
\* model before variant); a more specific level is consulted only when every
\* coarser level has 0 hits.
C6_CoarsestFirst ==
    (Done("carDekhoIntentBasedSearch") /\ local.searchType # "fallback") =>
        /\ response.responses[Level(local.searchType)].hits.total > 0
        /\ \A i \in 1..3 : i < Level(local.searchType) => response.responses[i].hits.total = 0

\* brand and variant probes both have hits, and the brand decides
C6_Witness ==
    /\ Done("carDekhoIntentBasedSearch")
    /\ response.responses[1].hits.total > 1
    /\ response.responses[3].hits.total = 1
    /\ local.searchType = "brand-multi"

\* the fields the clauses of a compiled filter are on
RECURSIVE FieldsOf(_)
FieldsOf(clause) ==
    CASE clause.q \in {"term", "terms", "range", "exists", "missing", "humane_query", "named"} ->
            {clause.field}
      [] clause.q \in {"nested", "constant_score"} -> FieldsOf(clause.query)
      [] clause.q = "bool_should" ->
            UNION {FieldsOf(clause.should[i]) : i \in 1..Len(clause.should)}
      [] clause.q = "array" ->
            UNION {FieldsOf(clause.queries[i]) : i \in 1..Len(clause.queries)}
      [] OTHER -> {}

IsFacetWrapper(value) == value.t = "wrapper" /\ value.type = "facet"

\* the fields of the facet configs whose key is k
FacetFieldsOf(k) ==
    {facetConfigsOf(searchTypeConfig)[i].field :
        i \in {j \in 1..Len(facetConfigsOf(searchTypeConfig)) :
                  facetConfigsOf(searchTypeConfig)[j].key = k}}

\* C7: a request filter entry that is a wrapper of type "facet" puts no clause
\* into the main query's filter (bool.filter) and only into post_filter; an
\* entry that is no facet-typed wrapper puts nothing into post_filter.
C7_FacetOnlyInPostFilter ==
    Done("searchQuery") =>
        \A k \in DOMAIN input.filter :
            /\ IsFacetWrapper(input.filter[k]) =>
                  /\ searchTypeConfig.filters[k].field \notin FieldsOf(result.search.query.filter)
                  /\ local.filterPushed[k] = << >>
            /\ ~IsFacetWrapper(input.filter[k]) =>
                  FacetFieldsOf(k) \cap FieldsOf(result.search.post_filter) = {}

\* a facet selection of brand on a type with a term filter and a facet of that
\* key: the clause is in post_filter and not in the filter
C7_Witness ==
    /\ Done("searchQuery")
    /\ IsFacetWrapper(input.filter["brand"])
    /\ searchTypeConfig.filters["brand"].type # "post"
    /\ searchTypeConfig.filters["brand"].termQuery
    /\ "brand" \in FieldsOf(result.search.post_filter)
    /\ "brand" \notin FieldsOf(result.search.query.filter)

\* C8: a request filter value equal to '__all__' contributes no clause, neither
\* to the output of filterQueries nor to that of facetQueries, and the
\* configured defaultValue is not applied in its place.
C8_AllSentinel ==
    Done("searchQuery") =>
        \A k \in DOMAIN input.filter :
            IsStr(input.filter[k], "__all__") =>
                /\ searchTypeConfig.filters[k].field \notin FieldsOf(result.search.query.filter)
                /\ local.filterPushed[k] = << >>
                /\ FacetFieldsOf(k) \cap FieldsOf(result.search.post_filter) = {}
                /\ \A i \in 1..Len(facetConfigsOf(searchTypeConfig)) :
                      facetConfigsOf(searchTypeConfig)[i].key = k => local.facetPushed[i] = << >>

\* '__all__' for a filter that has a default value and a facet of the same key
C8_Witness ==
    /\ Done("searchQuery")
    /\ IsStr(input.filter["brand"], "__all__")
    /\ searchTypeConfig.filters["brand"].type # "post"
    /\ Truthy(searchTypeConfig.filters["brand"].defaultValue)
    /\ FacetFieldsOf("brand") # {}
    /\ result.search.query.filter.q = "undefined"

\* the value filterQueries works with for a key: the request's, else the default
SuppliedValue(k) ==
    IF isValidValue(input.filter[k]) THEN input.filter[k]
    ELSE searchTypeConfig.filters[k].defaultValue

\* the filter of key k reaches buildFieldQuery
Supplied(k) ==
    /\ searchTypeConfig.filters[k].type # "post"
    /\ isValidValue(SuppliedValue(k))
    /\ ~IsStr(SuppliedValue(k), "__all__")
    /\ ~IsFacetWrapper(SuppliedValue(k))

\* the unwrapped value and the kind of the filter of key k for it
UnwrappedValue(k) == unwrapped(SuppliedValue(k)).filterValue
KindOf(k) ==
    IF unwrapped(SuppliedValue(k)).range THEN "range"
    ELSE IF searchTypeConfig.filters[k].termQuery THEN "term-equality"
    ELSE "free-text"

\* the clause under a nested-document envelope
Unnested(clause) == IF clause.q = "nested" THEN clause.query ELSE clause

\* (value-match clause OR field-does-not-exist clause)
IsValueOrMissing(clauses, field) ==
    /\ Len(clauses) = 1
    /\ clauses[1].q = "bool_should"
    /\ Len(clauses[1].should) = 2
    /\ Unnested(clauses[1].should[1]).q \in {"term", "terms", "range", "bool_should", "humane_query"}
    /\ Unnested(clauses[1].should[2]) = [q |-> "missing", field |-> field]

RECURSIVE HasMissing(_)
HasMissing(clause) ==
    CASE clause.q = "missing" -> TRUE
      [] clause.q \in {"nested", "constant_score"} -> HasMissing(clause.query)
      [] clause.q = "bool_should" ->
            \E i \in 1..Len(clause.should) : HasMissing(clause.should[i])
      [] OTHER -> FALSE

\* C9 as stated: with includeMissing, a filter of any kind emits (value-match
\* OR field-absent) for every supplied value but '__not_empty__', and no
\* field-absent alternative for '__not_empty__'.
C9_Original ==
    Done("searchQuery") =>
        \A k \in {"brand"} :
            (Supplied(k) /\ searchTypeConfig.filters[k].includeMissing) =>
                IF IsStr(UnwrappedValue(k), "__not_empty__")
                THEN \A i \in 1..Len(local.filterPushed[k]) : ~HasMissing(local.filterPushed[k][i])
                ELSE IsValueOrMissing(local.filterPushed[k], searchTypeConfig.filters[k].field)

\* C9 amended: with includeMissing, a term-equality filter and a range filter
\* given at least one range emit (value-match OR field-absent) for every
\* supplied value, but for '__not_empty__' given to a term-equality filter,
\* which emits the exists clause alone; a free-text filter emits its
\* value-match clause alone, with no field-absent alternative.
C9_IncludeMissing ==
    Done("searchQuery") =>
        \A k \in {"brand"} :
            (Supplied(k) /\ searchTypeConfig.filters[k].includeMissing) =>
                CASE KindOf(k) = "free-text" ->
                        /\ Len(local.filterPushed[k]) = 1
                        /\ Unnested(local.filterPushed[k][1]).q = "humane_query"
                  [] KindOf(k) = "term-equality" /\ IsStr(UnwrappedValue(k), "__not_empty__") ->
                        /\ Len(local.filterPushed[k]) = 1
                        /\ Unnested(local.filterPushed[k][1])
                              = [q |-> "exists", field |-> searchTypeConfig.filters[k].field]
                  [] KindOf(k) = "range" /\ AsArray(UnwrappedValue(k)) = << >> ->
                        local.filterPushed[k] = << >>
                  [] OTHER ->
                        /\ IsValueOrMissing(local.filterPushed[k], searchTypeConfig.filters[k].field)
                        /\ local.filterPushed[k][1] \in
                              {result.search.query.filter.queries[i] :
                                  i \in 1..(IF result.search.query.filter.q = "array"
                                            THEN Len(result.search.query.filter.queries) ELSE 0)}
                              \cup {result.search.query.filter}

\* a nested term-equality filter with includeMissing given a plain value
C9_Witness ==
    /\ Done("searchQuery")
    /\ Supplied("brand")
    /\ searchTypeConfig.filters["brand"].includeMissing
    /\ searchTypeConfig.filters["brand"].nestedPath = "p"
    /\ KindOf("brand") = "term-equality"
    /\ input.filter["brand"] = Str("a")
    /\ IsValueOrMissing(local.filterPushed["brand"], "brand")

\* the clause under the nested and constant-score envelopes
RECURSIVE Unwrapped(_)
Unwrapped(clause) ==
    IF clause.q \in {"nested", "constant_score"} THEN Unwrapped(clause.query) ELSE clause

\* the positions of the configured query fields that are not vernacular-only
ActiveAt(queryFields) == {i \in 1..Len(queryFields) : ~queryFields[i].vernacularOnly}

\* the k-th smallest element of a set of positions
RECURSIVE Nth(_, _)
Nth(S, k) ==
    LET least == CHOOSE i \in S : \A j \in S : i <= j
    IN IF k = 1 THEN least ELSE Nth(S \ {least}, k - 1)

\* C10: for a non-empty text, one active query field gives a humane_query on
\* that field with its weight (never a multi_humane_query); two or more give
\* one multi_humane_query whose fields are exactly the active fields, in
\* configured order, each with its weight; no vernacular-only field appears.
C10_TypeQueryShape ==
    (Done("buildTypeQuery") /\ input.text # "") =>
        LET queryFields == searchTypeConfig.queryFields
            active == ActiveAt(queryFields)
        IN /\ Cardinality(active) = 1 =>
                /\ Unwrapped(result).q = "humane_query"
                /\ Unwrapped(result).field = queryFields[Nth(active, 1)].field
                /\ Unwrapped(result).boost = queryFields[Nth(active, 1)].weight
           /\ Cardinality(active) >= 2 =>
                /\ result.q = "multi_humane_query"
                /\ Len(result.fields) = Cardinality(active)
                /\ \A k \in 1..Len(result.fields) :
                      /\ result.fields[k].field = queryFields[Nth(active, k)].field
                      /\ result.fields[k].boost = queryFields[Nth(active, k)].weight

\* three configured fields, the second one vernacular-only: the clause lists
\* the first and the third
C10_Witness ==
    /\ Done("buildTypeQuery")
    /\ input.text # ""
    /\ Len(searchTypeConfig.queryFields) = 3
    /\ ActiveAt(searchTypeConfig.queryFields) = {1, 3}
    /\ result.q = "multi_humane_query"
    /\ Len(result.fields) = 2
    /\ result.fields[2].field = searchTypeConfig.queryFields[3].field

\* the type config declares no summary: summaries is absent or {}
NoSummaries(typeConfig) ==
    ~Truthy(typeConfig.summaries) \/ isEmpty(typeConfig.summaries)

\* C11: the envelope searchQuery compiles for a type config with no facets
\* (absent, or an empty list) and no summaries has an undefined aggs, never an
\* empty object.
C11_NoAggregationClause ==
    Done("searchQuery") =>
        ((Len(facetConfigsOf(searchTypeConfig)) = 0 /\ NoSummaries(searchTypeConfig)) =>
            result.search.aggs.t = "undefined")

\* facets configured as an empty list, summaries as {}: facetsPart returns the
\* empty object and the envelope carries no aggs
C11_Witness ==
    /\ Done("searchQuery")
    /\ searchTypeConfig.facets.t = "array"
    /\ Len(facetConfigsOf(searchTypeConfig)) = 0
    /\ searchTypeConfig.summaries.t = "object"
    /\ isEmpty(searchTypeConfig.summaries)
    /\ facetsPart(searchTypeConfig).t = "object"
    /\ result.search.aggs.t = "undefined"

\* a facet config has what its kind needs: key, type, field for the field-terms,
\* min-max and discrete-ranges kinds, ranges for discrete-ranges, filters for
\* named-filters, and a known kind
FacetConfigComplete(facetConfig) ==
    /\ facetConfig.key # ""
    /\ facetConfig.type \in {"field", "min-max", "ranges", "filters"}
    /\ facetConfig.type \in {"field", "min-max", "ranges"} => facetConfig.field # ""
    /\ facetConfig.type = "ranges" => Truthy(facetConfig.ranges)
    /\ facetConfig.type = "filters" => Truthy(facetConfig.filters)

\* the codes of the errors of an incomplete facet config
FacetConfigErrorCodes ==
    {"NO_FACET_NAME_DEFINED", "NO_FACET_TYPE_DEFINED", "NO_FACET_FIELD_DEFINED",
     "NO_RANGES_DEFINED", "NO_FILTERS_DEFINED", "UNKNOWN_FACET_TYPE"}

\* C13: an incomplete facet config is reported when the searcher is constructed:
\* once construction has passed, every facet config of the registry is
\* complete, and the compile of a request raises none of the facet config
\* errors.
C13_FailFast ==
    (api = "searchQuery" /\ pc \in {"done", "thrown"}) =>
        /\ pc = "thrown" => result.code \notin FacetConfigErrorCodes
        /\ \A i \in 1..Len(facetConfigsOf(searchTypeConfig)) :
              FacetConfigComplete(facetConfigsOf(searchTypeConfig)[i])

\* the top-level aggregations and the sub-aggregations of a bucket aggregation
BucketOf(value) == IF value.agg = "nested" THEN value.aggs.v["nested"] ELSE value

\* C20: a type config with a non-empty summaries map, with or without facets,
\* compiles to an aggs that holds '__summary_<name>__' for every summary, and
\* the bucket aggregation of every declared facet carries every summary as a
\* sub-aggregation.
C20_SummaryAggregations ==
    (Done("searchQuery") /\ ~NoSummaries(searchTypeConfig)) =>
        LET summaries == searchTypeConfig.summaries.v
            facetConfigs == facetConfigsOf(searchTypeConfig)
            aggs == result.search.aggs
        IN /\ aggs.t = "object"
           /\ \A name \in DOMAIN summaries :
                 /\ summaryFacetKey(name) \in DOMAIN aggs.v
                 /\ aggs.v[summaryFacetKey(name)] = facetAggregation(summaries[name])
           /\ \A i \in 1..Len(facetConfigs) :
                 /\ facetConfigs[i].key \in DOMAIN aggs.v
                 /\ BucketOf(aggs.v[facetConfigs[i].key]).aggs.t = "object"
                 /\ \A name \in DOMAIN summaries :
                       /\ name \in DOMAIN BucketOf(aggs.v[facetConfigs[i].key]).aggs.v
                       /\ BucketOf(aggs.v[facetConfigs[i].key]).aggs.v[name]
                             = facetAggregation(summaries[name])

\* C20 where the type config declares facets (the list may be empty)
C20_WithFacets ==
    (Done("searchQuery") /\ searchTypeConfig.facets.t = "array") => C20_SummaryAggregations

\* the sum of the backend totals of a batch
RECURSIVE SumOfTotals(_)
SumOfTotals(responses) ==
    IF Len(responses) = 0 THEN 0
    ELSE responses[1].hits.total + SumOfTotals(Tail(responses))

\* the sum of the numbers of hits the per-type results of a batch carry
RECURSIVE SumOfKept(_)
SumOfKept(responses) ==
    IF Len(responses) = 0 THEN 0
    ELSE Len(KeptHits(responses[1])) + SumOfKept(Tail(responses))

\* the response carries the hits of the requested page: input.count of them
\* from the offset input.page * input.count on, as far as the total reaches
IsPageOf(resp, in) ==
    Len(resp.hits.hits) = Min(in.count, Max(resp.hits.total - (in.page * in.count), 0))

\* C17: the merged totalResults of processMultipleSearchResponse is the sum of
\* the backend totals of every type of the batch and the merged count the sum of
\* the numbers of hits returned for every type, also when a type has a non-zero
\* total and no hit on the requested page.
C17_AdditiveTotals ==
    (Done("search") /\ \A i \in 1..Len(response.responses) :
                          IsPageOf(response.responses[i], input)) =>
        /\ result.totalResults = SumOfTotals(response.responses)
        /\ result.count = SumOfKept(response.responses)

\* C17 for the batches in which every type with a non-zero total returns a hit
C17_AdditiveWhenHitsReturned ==
    (Done("search") /\ \A i \in 1..Len(response.responses) :
                          response.responses[i].hits.total > 0
                              => Len(response.responses[i].hits.hits) > 0) =>
        /\ result.totalResults = SumOfTotals(response.responses)
        /\ result.count = SumOfKept(response.responses)

\* the positions of the buildSection calls whose response has at least one result
WithResultsAt(arguments) ==
    {i \in 1..Len(arguments) :
        /\ arguments[i].sectionResponse.t = "object"
        /\ Len(arguments[i].sectionResponse.results) > 0}

\* C18: composeSections returns the sections supplied to it in their supplied
\* relative order, without the sections that have zero results and with every
\* other one, each with the name, title and resultType given to buildSection.
C18_ComposeSections ==
    Done("composeSections") =>
        LET kept == WithResultsAt(input)
        IN /\ Len(result.results) = Cardinality(kept)
           /\ \A k \in 1..Len(result.results) :
                 /\ result.results[k].name = input[Nth(kept, k)].sectionName
                 /\ result.results[k].title = input[Nth(kept, k)].sectionTitle
                 /\ result.results[k].resultType = input[Nth(kept, k)].resultType
                 /\ IdsOf(result.results[k].results.v)
                       = IdsOf(input[Nth(kept, k)].sectionResponse.results)

\* three sections, the second with a non-zero total and no result: the first
\* and the third are returned
C18_Witness ==
    /\ Done("composeSections")
    /\ Len(input) = 3
    /\ WithResultsAt(input) = {1, 3}
    /\ input[2].sectionResponse.t = "object"
    /\ input[2].sectionResponse.totalResults > 0
    /\ Len(result.results) = 2
    /\ result.results[1].name = "new_car"
    /\ result.results[2].name = "news"

\* the request has failed: the internal operation threw, or its promise was
\* rejected and errorWrap has run
Failed == pc \in {"thrown", "rejected"}

\* C12: whatever makes an operation of Searcher fail, thrown by the internal
\* operation before it returns or delivered as a rejected promise, the caller
\* gets a ValidationError as it was raised and anything else as an
\* InternalServiceError, which is not wrapped a second time
C12_ErrorBoundary ==
    Failed =>
        /\ local.cause._errorCode = "VALIDATION_ERROR" => result = local.cause
        /\ local.cause._errorCode = "INTERNAL_SERVICE_ERROR" => result = local.cause
        /\ local.cause._errorCode \notin {"VALIDATION_ERROR", "INTERNAL_SERVICE_ERROR"} =>
              /\ result._errorCode = "INTERNAL_SERVICE_ERROR"
              /\ result.details = local.cause.code

\* C12, the part that holds: the same for the failures that are delivered as
\* a rejected promise
C12_RejectionsWrapped ==
    pc = "rejected" =>
        /\ local.cause._errorCode = "VALIDATION_ERROR" => result = local.cause
        /\ local.cause._errorCode = "INTERNAL_SERVICE_ERROR" => result = local.cause
        /\ local.cause._errorCode \notin {"VALIDATION_ERROR", "INTERNAL_SERVICE_ERROR"} =>
              /\ result._errorCode = "INTERNAL_SERVICE_ERROR"
              /\ result.details = local.cause.code

\* the positions of the gateway calls of a chain in the trace
CallsOf(c) == {i \in 1..Len(trace) : trace[i].e = "esCall" /\ trace[i].chain = c}

\* the request goes through _searchInternal with no type, '*' or a list of
\* types, and is not flat
MultiTypeRequest ==
    /\ Started /\ api \in SearchOperations /\ local.path \in {"single", "composite"}
    /\ isMultiType(input.type) /\ ~input.flat

\* C14: a multi-type request that is not flat compiles the query of every
\* selected type before its first gateway call, makes exactly one multiSearch
\* call and no search call, and the batch has one query per selected type in
\* the order of the types the responses are attributed to
C14_OneBatchInOrder ==
    MultiTypeRequest =>
        \A c \in ChainIds :
            LET chain == local.chains[c]
            IN /\ Cardinality(CallsOf(c)) <= 1
               /\ chain.stage \in {"waiting", "replied", "processed", "resolved"} =>
                     Cardinality(CallsOf(c)) = 1
               /\ \A i \in CallsOf(c) :
                     /\ trace[i].name = "multiSearch"
                     /\ \A key \in Elements(searchTypeConfig.typeKeys) :
                           key \in Elements(trace[i].types) <=>
                               (input.type.t = "array" => key \in Elements(input.type.v))
                     /\ Cardinality(Elements(trace[i].types)) = Len(trace[i].types)
                     /\ \A k \in 1..Len(trace[i].types) :
                           \E j \in 1..(i - 1) :
                               trace[j] = Event("compile", c, "", <<trace[i].types[k]>>)
                     /\ Len(chain.typeOrTypesArray) = Len(trace[i].types)
                     /\ \A k \in 1..Len(trace[i].types) :
                           chain.typeOrTypesArray[k] =
                               searchTypeConfig.types[trace[i].types[k]].indexType.type
               /\ \A i \in 1..Len(trace) :
                     trace[i].e = "process" /\ trace[i].chain = c =>
                         /\ trace[i].name = "processMultipleSearchResponse"
                         /\ \A j \in CallsOf(c) :
                               /\ j < i
                               /\ Len(trace[i].types) = Len(trace[j].types)
                               /\ \A k \in 1..Len(trace[j].types) :
                                     trace[i].types[k] =
                                         searchTypeConfig.types[trace[j].types[k]].indexType.type

\* a search for a list of two types, given in another order than the
\* registry's, has returned
C14_Witness ==
    /\ MultiTypeRequest /\ pc = "done" /\ api = "search"
    /\ input.type.t = "array" /\ Len(input.type.v) = 2
    /\ input.type.v # searchTypeConfig.typeKeys
    /\ \E i \in CallsOf(1) : Len(trace[i].types) = 2

\* the positions of the gateway calls in the trace
GatewayCalls == {i \in 1..Len(trace) : trace[i].e = "esCall"}

\* the positions of the batched calls in the trace
BatchCalls == {i \in GatewayCalls : trace[i].name = "multiSearch"}

\* the request is a search on the intent cascade path
OnCascade == Started /\ api = "search" /\ local.path = "cascade"

\* every gateway call but the first is made after the call before it returned
Sequential ==
    \A i \in GatewayCalls :
        trace[i].chain > 1 =>
            \E j \in 1..(i - 1) : trace[j] = Event("reply", trace[i].chain - 1, "ok", << >>)

\* C15 as stated: a search on the intent cascade path makes at most two
\* gateway round trips in total, one after the other
C15_AtMostTwoRoundTrips ==
    OnCascade => Cardinality(GatewayCalls) <= 2 /\ Sequential

\* C15 amended: a search on the intent cascade path makes one intent call and
\* then at most two batched calls, each after the call before it has
\* returned: the probes only when the intent call returned a suggestion, and
\* after the probes one batch of section queries; with no suggestion it makes
\* a single batch, the generic one
C15_TwoBatchesAfterIntent ==
    OnCascade =>
        /\ Sequential
        /\ \A i \in GatewayCalls : trace[i].name = "intent" <=> i = 1
        /\ Cardinality(BatchCalls) <= 2
        /\ Cardinality(GatewayCalls) <= 3
        /\ \A i \in BatchCalls :
              /\ trace[i].chain = 2 =>
                    trace[i].types \in {typeDecipherQueries, withoutIntentQueries}
              /\ trace[i].chain = 3 =>
                    /\ \E j \in BatchCalls : j < i /\ trace[j].types = typeDecipherQueries
                    /\ trace[i].types # typeDecipherQueries
              /\ trace[i].chain \in {2, 3}
        /\ \A i \in BatchCalls :
              LET intentResponse == local.chains[1].reply
              IN intentResponse.results = 0 \/ ~intentResponse.suggestions =>
                    /\ trace[i].types = withoutIntentQueries
                    /\ Cardinality(BatchCalls) = 1

\* a search whose probes found a single model has returned its sections
\* after the intent call, the probes and the compose batch
C15_Witness ==
    /\ OnCascade /\ pc = "done"
    /\ Cardinality(GatewayCalls) = 3
    /\ \E i \in BatchCalls : trace[i].types = composeQueries("model-single")

\* the positions in the trace at which a search or multiSearch call fails
GatewayFailures ==
    {i \in 1..Len(trace) :
        /\ trace[i].e = "reply" /\ trace[i].name = "error"
        /\ local.chains[trace[i].chain].kind \in {"_searchInternal", "_multiSearch"}}

\* nothing is left to run and no call is waiting for the gateway
Quiescent ==
    /\ pc # "call" /\ ~Runnable
    /\ \A c \in ChainIds : local.chains[c].stage # "waiting"

\* when a search or multiSearch call of the request has failed, the request
\* does not return a result, has emitted and emits no event, makes no further
\* gateway call, and ends rejected
FailsAsAWhole ==
    \A i \in GatewayFailures :
        /\ pc # "done"
        /\ \A j \in 1..Len(trace) : trace[j].e # "emit"
        /\ \A j \in GatewayCalls : j < i
        /\ Quiescent => pc = "rejected" /\ result.t = "error"

\* C16: if a search or multiSearch call of a request fails, either batch of
\* the intent cascade included, the request fails as a whole: nothing is
\* returned, no event is emitted for it and no further gateway call is made
C16_GatewayFailureFailsRequest == Started => FailsAsAWhole

\* C16, the part that holds: the same for every request but the two-section
\* search of netmeds, which runs two _searchInternal calls side by side
C16_SingleChainRequests == Started /\ local.path # "composite" => FailsAsAWhole

\* the positions of the events in the trace
Emits == {i \in 1..Len(trace) : trace[i].e = "emit"}

\* an operation that has returned has emitted exactly one event, its own,
\* after the response of the gateway was processed and before it returned;
\* an operation that has failed has emitted none
OneEventWhenDone ==
    /\ pc = "done" =>
          /\ Cardinality(Emits) = 1
          /\ \A i \in Emits :
                /\ trace[i].name = eventNameOf(api)
                /\ \E j \in 1..(i - 1) :
                      trace[j].e = "process" /\ trace[j].chain = trace[i].chain
                /\ \E j \in (i + 1)..Len(trace) : trace[j].e = "return"
    /\ Failed => Emits = {}

\* C19: every search, autocomplete, formSearch, browseAll and
\* suggestedQueries operation that completes, on every path, emits exactly
\* one event, after the gateway response has been processed and before the
\* response is returned; a failed operation emits none
C19_ExactlyOneEvent == api \in SearchOperations => OneEventWhenDone

\* C19, the part that holds: the same on the paths that are one
\* _searchInternal call (single type, multi type, flat, section search)
C19_SearchInternalPaths ==
    api \in SearchOperations /\ (Started => local.path \in {"single", "section"}) =>
        OneEventWhenDone

\* the value C21 gives a filter: the request's when it is neither null nor
\* undefined, else the configured default, whatever it is
StatedEffectiveValue(filterConfig, key) ==
    IF FilterOf(input, key).t \notin {"undefined", "null"} THEN FilterOf(input, key)
    ELSE filterConfig.defaultValue

\* the request gives the filter nothing, a scalar or a facet-typed wrapper
PlainFilterValue(key) ==
    \/ FilterOf(input, key).t \in {"undefined", "null", "string", "boolean", "number"}
    \/ FilterOf(input, key).t = "wrapper" /\ FilterOf(input, key).type = "facet"

\* a filter flagged post pushes no clause; any other pushes one iff the value
\* C21 gives it is present, is not '__all__' and is not a facet-typed wrapper
ClauseIffStatedValue(key) ==
    LET filterConfig == searchTypeConfig.filters[key]
        value == StatedEffectiveValue(filterConfig, key)
    IN IF filterConfig.type = "post" THEN local.filterPushed[key] = << >>
       ELSE local.filterPushed[key] # << >> <=>
                /\ value.t \notin {"undefined", "null"}
                /\ ~(value.t = "string" /\ value.v = "__all__")
                /\ ~(value.t = "wrapper" /\ value.type = "facet")

\* C21: a filter that is not flagged post contributes a clause iff its
\* effective value (the request's value when it is neither null nor undefined,
\* false and 0 included, else the configured default, false and 0 included)
\* is present, is not '__all__' and is not a facet-typed wrapper; a filter
\* flagged post contributes none
C21_EffectiveValue ==
    Done("searchQuery") =>
        \A key \in {"brand", "price"} : PlainFilterValue(key) => ClauseIffStatedValue(key)

\* C21, the part that holds: the same when the configured default is absent
\* or truthy
C21_TruthyDefaults ==
    Done("searchQuery") =>
        \A key \in {"brand", "price"} :
            /\ PlainFilterValue(key)
            /\ \/ searchTypeConfig.filters[key].defaultValue.t \in {"undefined", "null"}
               \/ Truthy(searchTypeConfig.filters[key].defaultValue)
            => ClauseIffStatedValue(key)

\* the entries of the sort list, none when the type config has no list
SortEntries == IF searchTypeConfig.sort.t = "array" THEN searchTypeConfig.sort.v ELSE << >>

\* the positions of the entries flagged default
DefaultSortPositions == {i \in 1..Len(SortEntries) : SortEntries[i].default}

\* the order a clause gets: the request's lower-cased, else the configured
\* default, else descending
StatedSortOrder(order) ==
    IF order \in {"ASC", "asc"} THEN "asc"
    ELSE IF order \in {"DESC", "desc"} THEN "desc"
    ELSE IF searchTypeConfig.defaultSortOrder = "ASC" THEN "asc"
    ELSE "desc"

\* C22: a sort field that matches an entry gives one clause for that entry
\* whose order is the request's lower-cased, else the configured default, else
\* descending; a sort field that matches no entry gives no sort clause even
\* when entries are flagged default; no sort field gives the clauses of
\* exactly the entries flagged default, in configured order, and no sort
\* clause when there are none
C22_SortPart ==
    Done("sortPart") =>
        IF input.sort.t = "sort" /\ input.sort.field # ""
        THEN IF \E i \in 1..Len(SortEntries) : SortEntries[i].field = input.sort.field
             THEN /\ "field" \in DOMAIN result
                  /\ result.field = input.sort.field
                  /\ result.order = StatedSortOrder(input.sort.order)
             ELSE result = Undefined
        ELSE IF DefaultSortPositions = {} THEN result = Undefined
        ELSE /\ result.t = "array"
             /\ Len(result.v) = Cardinality(DefaultSortPositions)
             /\ \A k \in 1..Len(result.v) :
                   \E i \in DefaultSortPositions :
                       /\ Cardinality({j \in DefaultSortPositions : j <= i}) = k
                       /\ result.v[k].field = SortEntries[i].field
                       /\ result.v[k].order = StatedSortOrder("")

\* a request names a sort field that matches no entry of a list that has an
\* entry flagged default
C22_Witness ==
    /\ Done("sortPart") /\ input.sort.t = "sort" /\ input.sort.field = "rating"
    /\ DefaultSortPositions # {} /\ result = Undefined

\* the chains of the request that took the flat branch of _queryInternal
FlatChains == {c \in ChainIds : local.chains[c].kind = "_searchInternal" /\ local.chains[c].flat}

\* the flat chains whose gateway call is made
FlatCalled == {c \in FlatChains : local.chains[c].queryOrArray # None}

\* the chain has made one gateway call, a search with the envelope of the
\* shared index, and the envelope's query is a disjunction of one branch per
\* selected type, each the type's text clause and the term on the type's id
OneFlatEnvelope(c) ==
    LET chain == local.chains[c]
        envelope == chain.queryOrArray
        branches == envelope.query.query.should
    IN /\ Cardinality(CallsOf(c)) = 1
       /\ \A i \in CallsOf(c) : trace[i].name = "search"
       /\ envelope.index = <<toLower(searchTypeConfig.instanceName), "_store">>
       /\ envelope.query.query.q = "bool"
       /\ Len(branches) = Len(chain.keys)
       /\ \A i \in 1..Len(branches) :
            LET typeConfig == searchTypeConfig.types[chain.keys[i]]
            IN /\ branches[i].q = "bool"
               /\ Len(branches[i].must) = 2
               /\ branches[i].must[1] = buildTypeQuery(typeConfig, chain.input.text, FALSE)
               /\ branches[i].must[2].q = "term"
               /\ branches[i].must[2].field = "_type"
               /\ branches[i].must[2].value = typeConfig.indexType.type

\* from = page * count and size = count
PagedByCount(c) ==
    LET chain == local.chains[c]
    IN /\ chain.input.count.t = "number"
       /\ chain.queryOrArray.size = chain.input.count.v
       /\ chain.queryOrArray.from = chain.input.page.v * chain.input.count.v

\* from = page * size, and size is the count of the request, 10 when the
\* request has no count or a count of 0
PagedByCountOrTen(c) ==
    LET chain == local.chains[c]
        size == IF chain.input.count.t = "number" /\ chain.input.count.v # 0
                THEN chain.input.count.v ELSE 10
    IN /\ chain.queryOrArray.size = size
       /\ chain.queryOrArray.from = chain.input.page.v * size

\* C23 as stated: a flat request makes one search call with one envelope
\* against the shared store index, a disjunction of one branch per selected
\* type (text clause and discriminator), paged once with from = page * count
\* and size = count
C23_FlatEnvelope ==
    \A c \in FlatCalled : OneFlatEnvelope(c) /\ PagedByCount(c)

\* C23: a flat request makes one search call with one envelope against the
\* shared store index, a disjunction of one branch per selected type (text
\* clause and discriminator), paged once with size = count, or 10 when the
\* count is absent or 0, and from = page * size
C23_FlatEnvelopeDefaultSize ==
    \A c \in FlatCalled : OneFlatEnvelope(c) /\ PagedByCountOrTen(c)

\* a flat search over two listed types, on the second page and with no count,
\* has returned
C23_Witness ==
    /\ pc = "done" /\ api = "formSearch" /\ FlatCalled = {1}
    /\ Len(local.chains[1].keys) = 2
    /\ input.count.t = "undefined" /\ input.page.v = 1 /\ input.text = "x"
    /\ local.chains[1].queryOrArray.from = 10

\* the threshold the token count calls for: 1 of up to 2 tokens, 2 of 3 or 4,
\* 3 of 5 or more
StatedThreshold(n) == IF n <= 2 THEN 1 ELSE IF n <= 4 THEN 2 ELSE 3

\* the clause is that of the suggestion: its one token's clause alone, or a
\* should-clause over the clauses of all its tokens with the stated threshold
IsSuggestionClause(clause, intentSuggestion, field) ==
    LET tokens == intentSuggestion.intent_tokens
        n == Len(tokens)
    IN IF n = 1
       THEN clause = buildIntentTokenQuery(tokens[1], intentSuggestion.score, field)
       ELSE /\ clause.q = "bool"
            /\ Len(clause.should) = n
            /\ \A i \in 1..n :
                  clause.should[i] = buildIntentTokenQuery(tokens[i], intentSuggestion.score, field)
            /\ clause.minimum_should_match = StatedThreshold(n)
            /\ clause.minimum_should_match <= n

\* every suggestion of the list has a token
WithTokens(intentSuggestionList) ==
    /\ Len(intentSuggestionList) >= 1
    /\ \A i \in 1..Len(intentSuggestionList) : Len(intentSuggestionList[i].intent_tokens) >= 1

\* C24: one token gives its clause alone, two or more a should-clause over
\* all of them whose minimum-should-match is 1 for 2 tokens, 2 for 3 or 4 and
\* 3 for 5 or more, never more than the tokens; several suggestions are the
\* queries of one dis_max in their order, a single suggestion is not wrapped
C24_IntentSuggestionListQuery ==
    (api = "buildIntentSuggestionListQuery" /\ pc \in {"done", "thrown"}
        /\ WithTokens(input.intentSuggestionList)) =>
        /\ pc = "done"
        /\ IF Len(input.intentSuggestionList) = 1
           THEN IsSuggestionClause(result, input.intentSuggestionList[1], input.field)
           ELSE /\ result.q = "dis_max"
                /\ Len(result.queries) = Len(input.intentSuggestionList)
                /\ \A i \in 1..Len(result.queries) :
                      IsSuggestionClause(result.queries[i], input.intentSuggestionList[i],
                                         input.field)

\* two suggestions, of one token and of MaxTokens tokens, combined
C24_Witness ==
    /\ Done("buildIntentSuggestionListQuery")
    /\ Len(input.intentSuggestionList) = 2
    /\ Len(input.intentSuggestionList[1].intent_tokens) = 1
    /\ Len(input.intentSuggestionList[2].intent_tokens) = MaxTokens
    /\ result.q = "dis_max" /\ result.queries[2].minimum_should_match = 3

\* the greatest took of the batch
RECURSIVE MaxTook(_, _)
MaxTook(responses, n) ==
    IF n = 0 THEN 0 ELSE Max(MaxTook(responses, n - 1), responses[n].took)

\* the responses of the batch that processMultipleSearchResponse merges: those
\* with a kept hit
MergedOf(responses) == SelectSeq(responses, LAMBDA resp : Len(KeptHits(resp)) > 0)

\* C25: the queryTimeTaken of both merges is a number, the greatest took of
\* the responses of the batch
C25_QueryTimeTaken ==
    /\ Done("search") =>
          result.queryTimeTaken = MaxTook(response.responses, Len(response.responses))
    /\ Done("carDekhoIntentBasedSearch") =>
          result.queryTimeTaken = Num(MaxTook(response.responses, Len(response.responses)))

\* C25, what the merges compute: processMultipleSearchResponse the greatest
\* took of the responses it merges, undefined (-1) when it merges none;
\* processMultipleSearchResponseAsArray no number
C25_QueryTimeTakenOfMerged ==
    /\ Done("search") =>
          LET merged == MergedOf(response.responses)
          IN result.queryTimeTaken = IF Len(merged) = 0 THEN -1
                                     ELSE MaxTook(merged, Len(merged))
    /\ Done("carDekhoIntentBasedSearch") => result.queryTimeTaken = NaN

\* the input _queryInternal is called with: that of the section search on the
\* section paths of search, else the request
queryInternalInput ==
    IF api = "search" /\ searchPath(searchTypeConfig, input) = "section"
    THEN carDekhoSectionInput(input) ELSE input

\* a validated request comes to _queryInternal with a single type the search
\* config has no type config for
UnknownSingleType ==
    /\ api \in SearchOperations /\ input.conforms
    /\ ~(api = "search" /\ searchPath(searchTypeConfig, input) = "cascade")
    /\ queryInternalInput.type.t = "string"
    /\ queryInternalInput.type.v \notin {"", "*"}
    /\ ~hasType(searchTypeConfig, queryInternalInput.type.v)

C28_CountOfReturnedList ==
    Done("suggestedQueries") =>
        /\ result.count = Len(result.results)
        /\ result.nextPage.present <=>
              (input.page * input.count) + Len(result.results) < result.totalResults

\* C28, what the response holds: the count and the nextPage of the merged
\* response, as they were before the truncation
C28_CountOfMergedResponse ==
    Done("suggestedQueries") =>
        /\ result.count = local.merged.count
        /\ result.count = Len(GroupHits(local.merged.results))
        /\ result.count >= Len(result.results)
        /\ result.nextPage = local.merged.nextPage

\* the sum of the totalResults of the sections of a list
RECURSIVE SumOfSectionTotals(_)
SumOfSectionTotals(sections) ==
    IF Len(sections) = 0 THEN 0
    ELSE sections[1].totalResults + SumOfSectionTotals(Tail(sections))

\* the sum of the totalResults of the responses the sections are built over
RECURSIVE SumOfResponseTotals(_)
SumOfResponseTotals(arguments) ==
    IF Len(arguments) = 0 THEN 0
    ELSE (IF arguments[1].sectionResponse.t = "object"
          THEN arguments[1].sectionResponse.totalResults ELSE 0)
            + SumOfResponseTotals(Tail(arguments))

\* C29 as stated: the totalResults of composeSections is the sum of the
\* totalResults of the sections in the returned list, a dropped section adds
\* nothing
C29_TotalOfReturnedSections ==
    Done("composeSections") => result.totalResults = SumOfSectionTotals(result.results)

\* C29: the totalResults of composeSections is the sum of the totalResults
\* of every section response, those of the sections dropped for having no
\* result included
C29_TotalOfEverySection ==
    Done("composeSections") => result.totalResults = SumOfResponseTotals(input)

\* two sections, the second dropped with a non-zero total that is counted
C29_Witness ==
    /\ Done("composeSections")
    /\ Len(input) = 2 /\ WithResultsAt(input) = {1}
    /\ input[2].sectionResponse.t = "object"
    /\ input[2].sectionResponse.totalResults > 0
    /\ Len(result.results) = 1
    /\ result.totalResults = result.results[1].totalResults + input[2].sectionResponse.totalResults

\* the post filters that are active for the request: the names of the filter
\* configs of type 'post' with a truthy request value or a truthy default
ActivePostFilters ==
    IF searchTypeConfig.filters.t = "undefined" THEN {}
    ELSE {key \in DOMAIN searchTypeConfig.filters.v :
            /\ searchTypeConfig.filters.v[key].type = "post"
            /\ \/ /\ input.filter.t = "object"
                  /\ Truthy(input.filter.v[key])
               \/ Truthy(searchTypeConfig.filters.v[key].defaultValue)}

\* the documents of the first n pages, in the order they arrive
RECURSIVE ArrivedDocs(_, _)
ArrivedDocs(pages, n) ==
    IF n = 0 THEN << >>
    ELSE ArrivedDocs(pages, n - 1)
            \o (IF pages[n].t = "response" /\ pages[n].hits.t = "object"
                THEN [i \in 1..Len(pages[n].hits.hits.v) |-> pages[n].hits.hits.v[i]._source]
                ELSE << >>)

\* every active post filter accepts the document
AcceptedByAll(doc) == \A key \in ActivePostFilters : doc[key]

\* C30: while view scrolls and when it returns, totalResults is the length of
\* results and results holds, in arrival order, exactly the delivered
\* documents that every active post filter accepts; the response is returned
\* when every page of the scroll was delivered
C30_View ==
    (api = "view" /\ pc \in {"scrolling", "done"}) =>
        /\ local.finalResponse.totalResults = Len(local.finalResponse.results)
        /\ local.finalResponse.results
              = SelectSeq(ArrivedDocs(response, local.delivered), AcceptedByAll)
        /\ pc = "done" =>
              /\ local.delivered = Len(response)
              /\ result = local.finalResponse
              /\ result.results = SelectSeq(ArrivedDocs(response, Len(response)), AcceptedByAll)

\* a view of two pages with both post filters active has returned some of
\* the documents and dropped others
C30_Witness ==
    /\ Done("view") /\ Len(response) = MaxScrollPages
    /\ ActivePostFilters = {"brand", "price"}
    /\ Len(result.results) = 2
    /\ Len(ArrivedDocs(response, Len(response))) = 4
    /\ \E i \in 1..4 : LET doc == ArrivedDocs(response, Len(response))[i]
                       IN doc.brand /\ ~doc.price

=============================================================================
